---- MODULE Spec2Model ----
(***************************************************************************)
(* Model of OpenAIClient.send_messages_stream_with_tool_call               *)
(* (src/utils/openai_client.py) and of its caller get_context              *)
(* (src/main.py): the multi-round conversation loop that streams a model   *)
(* response, rebuilds tool calls from indexed fragments, runs the tools    *)
(* and feeds the results back.                                             *)
(*                                                                         *)
(* Python values are represented as follows.                               *)
(*   str            a TLA+ string                                          *)
(*   None | str     None == <<>> or Some(s) == <<s>>                       *)
(*   dict (message) a record with the keys the dict has                    *)
(*   list           a sequence                                             *)
(*   other objects  a record [t |-> tag, v |-> payload]                    *)
(***************************************************************************)
EXTENDS Integers, Sequences, FiniteSets, TLC

(***************************************************************************)
(* Bounds of the exploration.                                              *)
(***************************************************************************)
\* requests sent to the endpoint in one conversation
MaxRounds == 3
\* chunks the endpoint streams in one conversation
MaxChunks == 3

(***************************************************************************)
(* Python built-ins used by the loop.                                      *)
(***************************************************************************)
None == <<>>

Some(s) == <<s>>

\* bool(x) of an optional string: None and "" are falsy
Truthy(x) == x # None /\ x[1] # ""

\* s[i:i+1] with a 0-based index, "" past the end
At(s, i) == IF i >= 0 /\ i < Len(s) THEN SubSeq(s, i + 1, i + 1) ELSE ""

\* s[i:j] with 0-based indices, 0 <= i, j <= len(s)
Slice(s, i, j) == IF i < j THEN SubSeq(s, i + 1, j) ELSE ""

\* seq[-1]
Last(seq) == seq[Len(seq)]

\* the characters the json module skips (WHITESPACE_STR of json.decoder)
IsWs(c) == c \in {" ", "\t", "\n", "\r"}

\* c.isspace(), for the characters a string of this model can hold: the
\* form feed is white space for str.strip() and not for the json module
IsSpace(c) == c \in {" ", "\t", "\n", "\r", "\f"}

\* s[i:].strip() == "": every character of s from index i on is white space
AllWs(s, i) == \A j \in i..(Len(s) - 1) : IsSpace(At(s, j))

\* bool(s): the strip() is missing
NonBlankUnstripped(s) == s # ""

\* bool(s and s.strip())
NonBlank(s) == s # "" /\ ~AllWs(s, 0)

\* sub in s[i:], for i a 0-based index
Contains(s, sub, i) ==
    \E j \in i..(Len(s) - Len(sub)) : Slice(s, j, j + Len(sub)) = sub

\* sub in s
In(sub, s) == Contains(s, sub, 0)

\* one character in the body of repr(s): the quote character and the
\* backslash get a backslash in front, the newline, tab and return become
\* \n, \t, \r, and the form feed becomes \x0c
EscapeChar(c, quote) ==
    IF c = quote \/ c = "\\" THEN "\\" \o c
    ELSE IF c = "\n" THEN "\\n"
    ELSE IF c = "\t" THEN "\\t"
    ELSE IF c = "\r" THEN "\\r"
    ELSE IF c = "\f" THEN "\\x0c"
    ELSE c

RECURSIVE EscapeRange(_, _, _, _)
\* the body of repr(s) for s[i:j], by halves
EscapeRange(s, i, j, quote) ==
    IF i >= j THEN ""
    ELSE IF j = i + 1 THEN EscapeChar(At(s, i), quote)
    ELSE LET m == (i + j) \div 2
         IN  EscapeRange(s, i, m, quote) \o EscapeRange(s, m, j, quote)

\* the body of repr(s) from index i on
EscapeFrom(s, i, quote) == EscapeRange(s, i, Len(s), quote)

\* repr(s) of a str of printable ASCII, newline, tab, return and form feed:
\* single quotes, unless s has a single quote and no double quote
PyReprStr(s) ==
    LET quote == IF In("'", s) /\ ~In("\"", s) THEN "\"" ELSE "'"
    IN  quote \o EscapeFrom(s, 0, quote) \o quote

(***************************************************************************)
(* json.loads on a str of printable ASCII, newline, tab, return and form   *)
(* feed without the backslash (no escape sequence in a string), with       *)
(* integers below 2^31 and floats of at most 15 significant digits and a   *)
(* decimal exponent between -300 and 300.                                  *)
(* A result is [ok |-> TRUE, val, end] or [ok |-> FALSE, msg, pos]; msg "" *)
(* stands for the scanner's StopIteration, which the callers turn into     *)
(* "Expecting value".  Positions are 0-based as in Python.  A value is     *)
(* [t, v]: t the name of its Python type and v a string (str), an integer  *)
(* (int), repr() of the float (float), a Boolean (bool), <<>> (NoneType),  *)
(* the sequence of the <<key, value>> in insertion order (dict) or the     *)
(* sequence of the values (list).                                          *)
(***************************************************************************)
Digits == <<"0", "1", "2", "3", "4", "5", "6", "7", "8", "9">>

IsDigit(c) == \E d \in 1..10 : Digits[d] = c

DigitVal(c) == (CHOOSE d \in 1..10 : Digits[d] = c) - 1

RECURSIVE SkipWs(_, _)
\* WHITESPACE.match(s, i).end()
SkipWs(s, i) == IF i < Len(s) /\ IsWs(At(s, i)) THEN SkipWs(s, i + 1) ELSE i

RECURSIVE DigitsEnd(_, _)
\* the end of the run of digits that starts at i
DigitsEnd(s, i) == IF i < Len(s) /\ IsDigit(At(s, i)) THEN DigitsEnd(s, i + 1) ELSE i

RECURSIVE IntOf(_, _, _)
\* int(s[i:j]) of a run of digits
IntOf(s, i, j) == IF i >= j THEN 0 ELSE IntOf(s, i, j - 1) * 10 + DigitVal(At(s, j - 1))

Ok(value, e) == [ok |-> TRUE, val |-> value, end |-> e]

Err(m, p) == [ok |-> FALSE, msg |-> m, pos |-> p]

RECURSIVE StringEnd(_, _)
\* the index of the first '"' or control character at or after i; len(s)
\* if there is none
StringEnd(s, i) ==
    IF i >= Len(s) THEN i
    ELSE IF At(s, i) \in {"\"", "\n", "\t", "\r", "\f"} THEN i
    ELSE StringEnd(s, i + 1)

\* scanstring(s, end): end is the index after the opening quote
scanstring(s, end) ==
    LET q == StringEnd(s, end)
    IN  IF q >= Len(s) THEN Err("Unterminated string starting at", end - 1)
        ELSE IF At(s, q) # "\"" THEN Err("Invalid control character at", q)
        ELSE Ok([t |-> "str", v |-> Slice(s, end, q)], q + 1)

\* s[idx:].startswith(lit)
StartsWith(s, idx, lit) ==
    idx + Len(lit) <= Len(s) /\ Slice(s, idx, idx + Len(lit)) = lit

\* NUMBER_RE.match(s, idx), (-?(?:0|[1-9]\d*))(\.\d+)?([eE][-+]?\d+)?: the
\* integer part is s[int0:int1] after the sign, the fraction s[int1:frac1]
\* with its point, the exponent s[frac1:exp1] with its digits from exp0 on
NumberMatch(s, idx) ==
    LET int0 == IF At(s, idx) = "-" THEN idx + 1 ELSE idx
        int1 == IF At(s, int0) = "0" THEN int0 + 1 ELSE DigitsEnd(s, int0)
        frac1 == IF At(s, int1) = "." /\ IsDigit(At(s, int1 + 1))
                 THEN DigitsEnd(s, int1 + 1) ELSE int1
        exp0 == IF At(s, frac1) \in {"e", "E"}
                THEN (IF At(s, frac1 + 1) \in {"-", "+"} THEN frac1 + 2 ELSE frac1 + 1)
                ELSE frac1
        exp1 == IF exp0 > frac1 /\ IsDigit(At(s, exp0)) THEN DigitsEnd(s, exp0) ELSE frac1
    IN  [matched |-> int1 > int0, int0 |-> int0, int1 |-> int1, frac1 |-> frac1,
         exp0 |-> exp0, exp1 |-> exp1]

RECURSIVE Zeros(_)
\* "0" * n
Zeros(n) == IF n <= 0 THEN "" ELSE "0" \o Zeros(n - 1)

RECURSIVE LeadingZeros(_, _)
\* the number of "0" at the head of s[i:]
LeadingZeros(s, i) ==
    IF i < Len(s) /\ At(s, i) = "0" THEN 1 + LeadingZeros(s, i + 1) ELSE 0

RECURSIVE TrailingZeros(_, _)
\* the number of "0" at the end of s[:j]
TrailingZeros(s, j) ==
    IF j > 0 /\ At(s, j - 1) = "0" THEN 1 + TrailingZeros(s, j - 1) ELSE 0

\* repr(float(text)) of the decimal number digits * 10^exponent, negative
\* when neg: the shortest digits, in fixed notation when the decimal point
\* is at -3..16 and with an exponent of two digits at least otherwise; inf
\* from 1e309 on and 0.0 below 1e-330
FloatRepr(neg, digits, exponent) ==
    LET lead == LeadingZeros(digits, 0)
        trail == IF lead = Len(digits) THEN 0 ELSE TrailingZeros(digits, Len(digits))
        d == Slice(digits, lead, Len(digits) - trail)
        n == Len(d)
        decpt == n + exponent + trail
        sign == IF neg THEN "-" ELSE ""
        e == decpt - 1
        abs_e == IF e < 0 THEN 0 - e ELSE e
    IN  IF n = 0 \/ decpt < -330 THEN sign \o "0.0"
        ELSE IF decpt > 309 THEN sign \o "inf"
        ELSE IF decpt > 16 \/ decpt <= -4
        THEN sign \o Slice(d, 0, 1) \o (IF n > 1 THEN "." \o Slice(d, 1, n) ELSE "")
             \o "e" \o (IF e < 0 THEN "-" ELSE "+")
             \o (IF abs_e < 10 THEN "0" ELSE "") \o ToString(abs_e)
        ELSE IF decpt <= 0 THEN sign \o "0." \o Zeros(0 - decpt) \o d
        ELSE IF decpt >= n THEN sign \o d \o Zeros(decpt - n) \o ".0"
        ELSE sign \o Slice(d, 0, decpt) \o "." \o Slice(d, decpt, n)

\* the NUMBER_RE branch of the scanner, for s with a match m at idx: int()
\* of the integer part when there is neither fraction nor exponent, float()
\* of the whole match otherwise
NumberValue(s, idx, m) ==
    LET neg == At(s, idx) = "-"
        int_value == IntOf(s, m.int0, m.int1)
        frac_digits == Slice(s, m.int1 + 1, m.frac1)
        exp_value == IF m.exp1 = m.frac1 THEN 0
                     ELSE IF At(s, m.frac1 + 1) = "-" THEN 0 - IntOf(s, m.exp0, m.exp1)
                     ELSE IntOf(s, m.exp0, m.exp1)
    IN  IF m.frac1 = m.int1 /\ m.exp1 = m.frac1
        THEN Ok([t |-> "int", v |-> IF neg THEN 0 - int_value ELSE int_value], m.int1)
        ELSE Ok([t |-> "float",
                 v |-> FloatRepr(neg, Slice(s, m.int0, m.int1) \o frac_digits,
                                 exp_value - Len(frac_digits))],
                m.exp1)

scannumber(s, idx) == NumberValue(s, idx, NumberMatch(s, idx))

RECURSIVE DictSet(_, _, _)
\* d[k] = v on a dict kept as a sequence of <<key, value>> in insertion order
DictSet(d, k, v) ==
    IF d = <<>> THEN << <<k, v>> >>
    ELSE IF d[1][1] = k THEN << <<k, v>> >> \o Tail(d)
    ELSE <<d[1]>> \o DictSet(Tail(d), k, v)

DictHas(d, k) == \E i \in 1..Len(d) : d[i][1] = k

DictGet(d, k) == d[CHOOSE i \in 1..Len(d) : d[i][1] = k][2]

RECURSIVE scan_once(_, _)
RECURSIVE JSONPairs(_, _, _)
RECURSIVE JSONValues(_, _, _)
RECURSIVE JSONNextValue(_, _, _)
RECURSIVE JSONPairValue(_, _, _, _, _)

\* the loop of JSONObject from the value of a pair on: key is the result of
\* scanstring for its key, and the colon is at index e1
JSONPairValue(s, key, e1, val, pairs) ==
    IF ~val.ok
    THEN (IF val.msg = "" THEN Err("Expecting value", val.pos) ELSE val)
    ELSE
    LET e3 == SkipWs(s, val.end)
        nextchar == At(s, e3)
        pairs2 == DictSet(pairs, key.val.v, val.val)
    IN  IF nextchar = "}" THEN Ok([t |-> "dict", v |-> pairs2], e3 + 1)
        ELSE IF nextchar # "," THEN Err("Expecting ',' delimiter", e3)
        ELSE
        LET e4 == SkipWs(s, e3 + 1)
        IN  IF At(s, e4) # "\""
            THEN Err("Expecting property name enclosed in double quotes", e4)
            ELSE JSONPairs(s, e4 + 1, pairs2)

\* the loop of JSONObject from the colon of a pair on
JSONPairColon(s, key, e1, pairs) ==
    IF At(s, e1) # ":" THEN Err("Expecting ':' delimiter", e1)
    ELSE JSONPairValue(s, key, e1, scan_once(s, SkipWs(s, e1 + 1)), pairs)

\* the loop of JSONObject from the end of a key on
JSONPairKey(s, key, pairs) ==
    IF ~key.ok THEN key
    ELSE JSONPairColon(s, key, IF At(s, key.end) # ":" THEN SkipWs(s, key.end) ELSE key.end, pairs)

\* the loop of JSONObject: end is the index after the opening quote of a key
JSONPairs(s, end0, pairs) == JSONPairKey(s, scanstring(s, end0), pairs)

\* JSONObject((s, end)): end is the index after the opening brace
JSONObject(s, end0) ==
    LET e1 == IF At(s, end0) # "\"" THEN SkipWs(s, end0) ELSE end0
        nextchar == At(s, e1)
    IN  IF nextchar = "}" THEN Ok([t |-> "dict", v |-> <<>>], e1 + 1)
        ELSE IF nextchar # "\""
        THEN Err("Expecting property name enclosed in double quotes", e1)
        ELSE JSONPairs(s, e1 + 1, <<>>)

\* the loop of JSONArray from the end of a value on
JSONNextValue(s, val, values) ==
    IF ~val.ok
    THEN (IF val.msg = "" THEN Err("Expecting value", val.pos) ELSE val)
    ELSE
    LET e1 == SkipWs(s, val.end)
        nextchar == At(s, e1)
        values2 == Append(values, val.val)
    IN  IF nextchar = "]" THEN Ok([t |-> "list", v |-> values2], e1 + 1)
        ELSE IF nextchar # "," THEN Err("Expecting ',' delimiter", e1)
        ELSE JSONValues(s, SkipWs(s, e1 + 1), values2)

\* the loop of JSONArray: end is the index of the next value
JSONValues(s, end0, values) == JSONNextValue(s, scan_once(s, end0), values)

\* JSONArray((s, end)): end is the index after the opening bracket
JSONArray(s, end0) ==
    LET e1 == SkipWs(s, end0)
    IN  IF At(s, e1) = "]" THEN Ok([t |-> "list", v |-> <<>>], e1 + 1)
        ELSE JSONValues(s, e1, <<>>)

\* scan_once(s, idx) of the scanner
scan_once(s, idx) ==
    LET nextchar == At(s, idx)
    IN  IF nextchar = "" THEN Err("", idx)
        ELSE IF nextchar = "\"" THEN scanstring(s, idx + 1)
        ELSE IF nextchar = "{" THEN JSONObject(s, idx + 1)
        ELSE IF nextchar = "[" THEN JSONArray(s, idx + 1)
        ELSE IF StartsWith(s, idx, "null") THEN Ok([t |-> "NoneType", v |-> <<>>], idx + 4)
        ELSE IF StartsWith(s, idx, "true") THEN Ok([t |-> "bool", v |-> TRUE], idx + 4)
        ELSE IF StartsWith(s, idx, "false") THEN Ok([t |-> "bool", v |-> FALSE], idx + 5)
        ELSE IF NumberMatch(s, idx).matched THEN scannumber(s, idx)
        ELSE IF StartsWith(s, idx, "NaN") THEN Ok([t |-> "float", v |-> "nan"], idx + 3)
        ELSE IF StartsWith(s, idx, "Infinity") THEN Ok([t |-> "float", v |-> "inf"], idx + 8)
        ELSE IF StartsWith(s, idx, "-Infinity") THEN Ok([t |-> "float", v |-> "-inf"], idx + 9)
        ELSE Err("", idx)

\* the end of JSONDecoder.decode for the result r of raw_decode
decode(s, r) ==
    IF ~r.ok
    THEN (IF r.msg = "" THEN Err("Expecting value", r.pos) ELSE r)
    ELSE LET e == SkipWs(s, r.end)
         IN  IF e # Len(s) THEN Err("Extra data", e) ELSE r

\* json.loads(s): [ok |-> TRUE, val] or the JSONDecodeError [ok |-> FALSE,
\* msg, pos]
json_loads(s) == decode(s, scan_once(s, SkipWs(s, 0)))

\* doc.count('\n', 0, pos)
CountNl(s, end) == Cardinality({i \in 0..(end - 1) : At(s, i) = "\n"})

\* doc.rindex('\n', 0, pos), for a doc with a newline before pos
LastNl(s, end) ==
    CHOOSE i \in 0..(end - 1) :
        At(s, i) = "\n" /\ \A j \in (i + 1)..(end - 1) : At(s, j) # "\n"

\* str(e) of the JSONDecodeError json.loads(doc) raised
JSONDecodeErrorStr(doc, e) ==
    LET lineno == CountNl(doc, e.pos) + 1
        colno  == IF lineno = 1 THEN e.pos + 1 ELSE e.pos - LastNl(doc, e.pos)
    IN  e.msg \o ": line " \o ToString(lineno) \o " column " \o ToString(colno)
              \o " (char " \o ToString(e.pos) \o ")"

\* repr(e) of an exception e of the class type, a JSONDecodeError or a
\* subclass of it, with str(e) = detail: its args are (detail,)
JSONDecodeErrorRepr(type, detail) == type \o "(" \o PyReprStr(detail) \o ")"

RECURSIVE PyRepr(_)
RECURSIVE PyReprItems(_, _, _)

\* ", ".join of repr() of the elements of a list, or of "key: value" of the
\* items of a dict, from element i on
PyReprItems(items, i, is_dict) ==
    IF i > Len(items) THEN ""
    ELSE (IF i > 1 THEN ", " ELSE "")
         \o (IF is_dict THEN PyReprStr(items[i][1]) \o ": " \o PyRepr(items[i][2])
              ELSE PyRepr(items[i]))
         \o PyReprItems(items, i + 1, is_dict)

\* repr(x) of a Python value
PyRepr(x) ==
    IF x.t = "str" THEN PyReprStr(x.v)
    ELSE IF x.t = "int" THEN ToString(x.v)
    ELSE IF x.t = "float" THEN x.v
    ELSE IF x.t = "bool" THEN (IF x.v THEN "True" ELSE "False")
    ELSE IF x.t = "dict" THEN "{" \o PyReprItems(x.v, 1, TRUE) \o "}"
    ELSE IF x.t = "list" THEN "[" \o PyReprItems(x.v, 1, FALSE) \o "]"
    ELSE "None"

\* str(x) of a Python value
PyStr(x) == IF x.t = "str" THEN x.v ELSE PyRepr(x)

(***************************************************************************)
(* The endpoint's stream.  A chunk is [usage, choices]: usage is None or   *)
(* Some(CompletionUsage), choices has at most one choice [delta,           *)
(* finish_reason], a delta is [content, tool_calls] and a tool-call        *)
(* fragment is [index, id, function] with function None or Some([name,     *)
(* arguments]).  A delta of an endpoint that reports its reasoning has the *)
(* attribute reasoning_content too, None or Some(text): the record of such *)
(* a delta has the field, the record of another delta has not.             *)
(***************************************************************************)
Frag(i, id, name, args) ==
    [index |-> i, id |-> id, function |-> Some([name |-> name, arguments |-> args])]

DeltaChunk(usage, content, tool_calls, finish) ==
    [usage |-> usage,
     choices |-> <<[delta |-> [content |-> content, tool_calls |-> tool_calls],
                    finish_reason |-> finish]>>]

\* the chunk with the attribute reasoning_content added to its delta
Reasoning(chunk, text) ==
    [chunk EXCEPT !.choices[1].delta =
        [content |-> @.content, tool_calls |-> @.tool_calls,
         reasoning_content |-> text]]

\* hasattr(delta, "reasoning_content") of line 141
HasReasoning(delta) == "reasoning_content" \in DOMAIN delta

Usage(p, c, t) == [prompt_tokens |-> p, completion_tokens |-> c, total_tokens |-> t]

\* the chunks the endpoint streams in this model
Chunks ==
    { \* text
      DeltaChunk(None, Some("Hel"), <<>>, None),
      \* blank text
      DeltaChunk(None, Some(" \f"), <<>>, None),
      \* the usage report: no choices
      [usage |-> Some(Usage(1, 2, 3)), choices |-> <<>>],
      \* a usage report that also carries text and a tool-call fragment
      DeltaChunk(Some(Usage(2, 0, 2)), Some("lo"),
                 <<Frag(0, Some("c3"), Some("save"), Some("1"))>>, None),
      \* the call at index 1 starts before the call at index 0
      DeltaChunk(None, None, <<Frag(1, Some("c2"), Some("read_file"), Some("{\n\"a\""))>>, None),
      DeltaChunk(None, None, <<Frag(0, Some("c1"), Some("get_tree"), Some("{"))>>, None),
      \* one chunk continues both calls; empty id and name
      DeltaChunk(None, None, <<Frag(1, None, None, Some(": 1.5}")),
                               Frag(0, Some(""), Some(""), Some("}"))>>, None),
      \* two calls that never get an id
      DeltaChunk(None, None, <<Frag(0, None, Some("get_tree"), Some("{}")),
                               Frag(1, None, Some("get_tree"), Some("{}"))>>, None),
      \* an id alone, without function: the id of index 0 again, on index 1
      DeltaChunk(None, None, <<[index |-> 1, id |-> Some("c1"), function |-> None]>>, None),
      \* another id and another name for index 0, without arguments
      DeltaChunk(None, None, <<Frag(0, Some("c2"), Some("save"), None)>>, None),
      \* the closing chunk of a round: finish reason only
      DeltaChunk(None, None, <<>>, Some("tool_calls")),
      \* reasoning, without text
      Reasoning(DeltaChunk(None, None, <<>>, None), Some("think")),
      \* text of an endpoint that reports its reasoning: the attribute is None
      Reasoning(DeltaChunk(None, Some("Hel"), <<>>, None), None),
      \* neither usage nor a choice
      [usage |-> None, choices |-> <<>>] }

\* what the executor call_tool_func returns
Results == <<[t |-> "str", v |-> "ROOT/\n  a.txt\n"], [t |-> "int", v |-> 7]>>

\* an exception as [type, detail]: its class and str(e)
Raised(type, detail) == [type |-> type, detail |-> detail]

\* type.__mro__ without object: the class and its base classes.
\* ToolJSONError is a class of the tool, class ToolJSONError(JSONDecodeError)
Mro(type) ==
    CASE type = "BaseException" -> <<"BaseException">>
      [] type = "SystemExit" -> <<"SystemExit", "BaseException">>
      [] type = "CancelledError" -> <<"CancelledError", "BaseException">>
      [] type = "Exception" -> <<"Exception", "BaseException">>
      [] type = "ValueError" -> <<"ValueError", "Exception", "BaseException">>
      [] type = "JSONDecodeError" ->
             <<"JSONDecodeError", "ValueError", "Exception", "BaseException">>
      [] type = "ToolJSONError" ->
             <<"ToolJSONError", "JSONDecodeError", "ValueError", "Exception",
               "BaseException">>

\* isinstance(e, class), the test of an except clause
isinstance(e, class) == \E i \in DOMAIN Mro(e.type) : Mro(e.type)[i] = class

\* what the executor raises and an except clause of the loop takes: an
\* Exception; the json.JSONDecodeError("boom", "{x", 1) of a tool that
\* reads JSON itself; the one json.loads raises in the tool for the
\* document "\x" (with its quotes), whose message has a backslash; and an
\* exception of a subclass of JSONDecodeError
Failures ==
    { Raised("Exception", "boom"),
      Raised("JSONDecodeError", JSONDecodeErrorStr("{x", Err("boom", 1))),
      Raised("JSONDecodeError",
             JSONDecodeErrorStr("\"\\x\"", Err("Invalid \\escape", 1))),
      Raised("ToolJSONError", JSONDecodeErrorStr("{x", Err("boom", 1))) }

\* what the executor raises and no except clause of the loop takes:
\* SystemExit(1) of a tool that calls sys.exit, and the CancelledError of a
\* tool whose own future was cancelled
Exits ==
    { Raised("SystemExit", "1"),
      Raised("CancelledError", "") }

\* the seed histories of the caller
Seeds ==
    { <<[role |-> "system", content |-> "sys"], [role |-> "user", content |-> "hi"]>>,
      <<[role |-> "system", content |-> "sys"], [role |-> "user", content |-> "hi"],
        [role |-> "assistant", content |-> "Hello"]>> }

\* the values of the parameter tool_argument_to_show
ArgumentsToShow == {<<>>, <<"a">>}

(***************************************************************************)
(* The tool-call aggregation of one round (lines 149-190).  The dict       *)
(* tool_call_deltas_by_index is a sequence of <<index, record>> in         *)
(* insertion order, as a Python dict keeps it.                             *)
(***************************************************************************)
HasIndex(d, index) == \E i \in 1..Len(d) : d[i][1] = index

EntryOf(d, index) == CHOOSE i \in 1..Len(d) : d[i][1] = index

\* lines 155-159
NewToolCall == [id |-> None, type |-> "function",
                function |-> [name |-> None, arguments |-> ""]]

\* first write wins: an id or a name that is set is kept
UpdateToolCallFirstWins(obj, tool_call_delta, field) ==
    LET function == tool_call_delta.function
    IN  IF field = "id"
        THEN (IF obj.id = None THEN [obj EXCEPT !.id = tool_call_delta.id] ELSE obj)
        ELSE IF field = "name"
        THEN (IF obj.function.name = None
              THEN [obj EXCEPT !.function.name = function[1].name] ELSE obj)
        ELSE [obj EXCEPT !.function.arguments = @ \o function[1].arguments[1]]

\* one assignment to the record of an index: the id (lines 163-165), the
\* name (lines 171-173) or the arguments (lines 178-180)
UpdateToolCall(obj, tool_call_delta, field) ==
    LET function == tool_call_delta.function
    IN  IF field = "id" THEN [obj EXCEPT !.id = tool_call_delta.id]
        ELSE IF field = "name" THEN [obj EXCEPT !.function.name = function[1].name]
        ELSE [obj EXCEPT !.function.arguments = @ \o function[1].arguments[1]]

\* the assignment of one field in the map of the round
SetToolCall(d, tool_call_delta, field) ==
    LET i == EntryOf(d, tool_call_delta.index)
    IN  [d EXCEPT ![i] = <<d[i][1], UpdateToolCall(d[i][2], tool_call_delta, field)>>]

\* lines 166-167: the fragment carries a name
CarriesName(tool_call_delta) ==
    tool_call_delta.function # None /\ Truthy(tool_call_delta.function[1].name)

\* lines 166 and 174: the fragment carries arguments
CarriesArguments(tool_call_delta) ==
    tool_call_delta.function # None /\ Truthy(tool_call_delta.function[1].arguments)

\* lines 151-165: the record of the index is made if there is none, and the
\* id of the fragment is set
EnterToolCall(d, tool_call_delta) ==
    LET index == tool_call_delta.index
        d1 == IF HasIndex(d, index) THEN d ELSE Append(d, <<index, NewToolCall>>)
    IN  IF Truthy(tool_call_delta.id) THEN SetToolCall(d1, tool_call_delta, "id") ELSE d1

RECURSIVE ToolCallsFrom(_, _, _)
\* lines 150-175 from fragment k of delta.tool_calls on, up to the next
\* yield: the map, the fragment the loop is at, and the line it yields at
\* ("name" for line 168, "arguments" for line 175); at "stream" and fragment
\* 0 when the loop has ended without a yield
ToolCallsFrom(d, tool_calls, k) ==
    IF k > Len(tool_calls)
    THEN [tool_call_deltas_by_index |-> d, frag |-> 0, at |-> "stream"]
    ELSE LET d1 == EnterToolCall(d, tool_calls[k])
         IN  IF CarriesName(tool_calls[k])
             THEN [tool_call_deltas_by_index |-> d1, frag |-> k, at |-> "name"]
             ELSE IF CarriesArguments(tool_calls[k])
             THEN [tool_call_deltas_by_index |-> d1, frag |-> k, at |-> "arguments"]
             ELSE ToolCallsFrom(d1, tool_calls, k + 1)

RECURSIVE InsertSorted(_, _)
InsertSorted(sorted, x) ==
    IF sorted = <<>> THEN <<x>>
    ELSE IF x <= Head(sorted) THEN <<x>> \o sorted
    ELSE <<Head(sorted)>> \o InsertSorted(Tail(sorted), x)

RECURSIVE SortedFrom(_, _)
SortedFrom(keys, i) ==
    IF i > Len(keys) THEN <<>>
    ELSE InsertSorted(SortedFrom(keys, i + 1), keys[i])

\* d.keys()
Keys(d) == [i \in 1..Len(d) |-> d[i][1]]

\* a loop over the dict without sorted(): the keys in arrival order
SortedKeysUnsorted(d) == Keys(d)

\* sorted(tool_call_deltas_by_index.keys())
SortedKeys(d) == SortedFrom(Keys(d), 1)

\* lines 183-190: the records in the order of their index
Reconstruct(d) ==
    LET keys == SortedKeys(d)
    IN  [i \in 1..Len(keys) |-> d[EntryOf(d, keys[i])][2]]

(***************************************************************************)
(* The messages the loop builds.                                           *)
(***************************************************************************)
\* the content is left out of the message
AssistantMessageNoContent(content, tool_calls) ==
    IF tool_calls # <<>> THEN [role |-> "assistant", tool_calls |-> tool_calls]
    ELSE [role |-> "assistant"]

\* elif in place of the second if: the tool calls are left out of a message
\* that has content
AssistantMessageElif(content, tool_calls) ==
    IF NonBlank(content) THEN [role |-> "assistant", content |-> content]
    ELSE IF tool_calls # <<>> THEN [role |-> "assistant", tool_calls |-> tool_calls]
    ELSE [role |-> "assistant"]

\* lines 203-211
AssistantMessage(content, tool_calls) ==
    LET has_content == NonBlank(content)
        has_tool_calls == tool_calls # <<>>
    IN  IF has_content /\ has_tool_calls
        THEN [role |-> "assistant", content |-> content, tool_calls |-> tool_calls]
        ELSE IF has_content THEN [role |-> "assistant", content |-> content]
        ELSE IF has_tool_calls THEN [role |-> "assistant", tool_calls |-> tool_calls]
        ELSE [role |-> "assistant"]

\* line 241: not all([tool_call_id, tool_name])
Malformed(tool_call_obj) ==
    tool_call_obj.id = None \/ tool_call_obj.function.name = None

\* line 249: list.index, the 0-based position of the first equal element
ListIndex(list, x) == (CHOOSE i \in 1..Len(list) :
                          list[i] = x /\ \A j \in 1..(i - 1) : list[j] # x) - 1

\* the placeholder also when the record has an id
MalformedToolIdUnknown(tool_calls, tool_call_obj) ==
    "unknown_id_for_index_" \o ToString(ListIndex(tool_calls, tool_call_obj))

\* lines 248-253
MalformedToolId(tool_calls, tool_call_obj) ==
    IF tool_call_obj.id = None
    THEN "unknown_id_for_index_" \o ToString(ListIndex(tool_calls, tool_call_obj))
    ELSE tool_call_obj.id[1]

\* lines 258-261
IncompleteText ==
    "Error: Tool call information was incomplete (ID or name missing). Cannot execute."

\* lines 254-263
MalformedToolMessage(tool_calls, tool_call_obj) ==
    [role |-> "tool",
     tool_call_id |-> MalformedToolId(tool_calls, tool_call_obj),
     content |-> IncompleteText]

\* the malformed branch skips the record without a message
AppendMalformedSkipped(history, tool_calls, tool_call_obj) == history

\* lines 254-263: messages.append of the diagnostic
AppendMalformed(history, tool_calls, tool_call_obj) ==
    Append(history, MalformedToolMessage(tool_calls, tool_call_obj))

\* lines 288-294 and 312: str() of the tuple (format, tool_name, e,
\* arguments_str), e = Raised(type, detail) an instance of JSONDecodeError
InvalidJsonResult(tool_name, type, detail, arguments_str) ==
    "("
    \o PyReprStr("Error: Tool %s arguments were not valid JSON. "
                 \o "Error: %s. Arguments received: %s")
    \o ", " \o PyReprStr(tool_name)
    \o ", " \o JSONDecodeErrorRepr(type, detail)
    \o ", " \o PyReprStr(arguments_str) \o ")"

\* line 304, a Chinese sentence: "adjust the tool's arguments and run it
\* again"
RetryHint == "[adjust the tool's arguments and run it again]"

\* lines 302-305
ExecutionFailedResult(tool_name, detail) ==
    "Error: Tool " \o tool_name \o " execution failed. Details: " \o detail
    \o "\n" \o RetryHint

\* the result is tagged with no id
ToolMessageUntagged(result, tool_call_id) ==
    [role |-> "tool", content |-> result, tool_call_id |-> ""]

\* lines 309-315
ToolMessage(result, tool_call_id) ==
    [role |-> "tool", content |-> result, tool_call_id |-> tool_call_id]

\* line 277: str(e) of the exception parsed_arguments[arg] raises, None if
\* it raises none
SubscriptError(parsed_arguments, key) ==
    IF parsed_arguments.t = "str"
    THEN Some("string indices must be integers, not 'str'")
    ELSE IF parsed_arguments.t = "list"
    THEN Some("list indices must be integers or slices, not str")
    ELSE IF parsed_arguments.t # "dict"
    THEN Some("'" \o parsed_arguments.t \o "' object is not subscriptable")
    ELSE IF ~DictHas(parsed_arguments.v, key) THEN Some(PyReprStr(key))
    ELSE None

(***************************************************************************)
(* The events the loop yields and what get_context does with them.  An     *)
(* event is a dict of one key, here [key, value] with value None or        *)
(* Some(text).  The Chinese texts of the events are replaced by ASCII      *)
(* texts in brackets.                                                      *)
(***************************************************************************)
Event(key, value) == Some([key |-> key, value |-> value])

\* line 169: "calling the tool"
CallingHint == "[calling the tool]"

\* line 234: "running the tools"
ExecutingHint == "[running the tools]"

\* line 264: "the tool call failed, the arguments are malformed"
FailedHint == "[the tool call failed, the arguments are malformed]"

\* line 307: "result of the tool"
ResultHint == "[result of the tool]"

\* main.py lines 32-33: llm_output after the event e
Consume(output, e) ==
    IF e[1].key = "content" /\ Truthy(e[1].value) THEN output \o e[1].value[1]
    ELSE output

\* "=" in place of "+=": the totals are those of the last usage fragment
update_total_token_usage_assigned(total, usage) ==
    [prompt_tokens |-> usage.prompt_tokens,
     completion_tokens |-> usage.completion_tokens,
     total_tokens |-> usage.total_tokens]

\* lines 28-32
update_total_token_usage(total, usage) ==
    [prompt_tokens |-> total.prompt_tokens + usage.prompt_tokens,
     completion_tokens |-> total.completion_tokens + usage.completion_tokens,
     total_tokens |-> total.total_tokens + usage.total_tokens]

(***************************************************************************)
(* The model configurations (src/config/llm_config_manager.py).  The file  *)
(* models.yaml, as loaded into _config_cache, is [default_model, models]:  *)
(* default_model is None when the key is absent and Some(name) otherwise;  *)
(* models is None when the key is absent and otherwise Some(f), f a        *)
(* function from display names to model configurations.  _config_cache is  *)
(* None while no file is loaded (lines 97 and 184).                        *)
(***************************************************************************)
\* the display names; the second stands for the default of line 88, a name
\* with Chinese characters
ConfigNames == {"deepseek", "volc-deepseek", "local"}

\* the configuration stored under a name; the one of "local" has no api_key
ModelConfigOf(name) ==
    IF name = "local"
    THEN [api_base |-> "http://localhost", model_name |-> "m-local"]
    ELSE [api_base |-> "https://" \o name, api_key |-> "key-" \o name,
          model_name |-> "m-" \o name]

\* the configuration files
ConfigCaches ==
    { [default_model |-> default, models |-> models] :
          default \in {None} \cup {Some(name) : name \in ConfigNames},
          models \in {None} \cup
                     {Some([name \in S |-> ModelConfigOf(name)]) : S \in SUBSET ConfigNames} }

\* the file models.yaml as _load_config finds it: None when it is missing or
\* is not YAML, Some of its content otherwise
ConfigFiles == {None} \cup {Some(cache) : cache \in ConfigCaches}

\* lines 117-128: _config_cache after _load_config, which raises when it
\* leaves the cache as it is
_load_config(cache, file) == IF file = None THEN cache ELSE file[1]

\* lines 130-169: Some of the configuration (api_base, api_key, model_name),
\* None when it raises: ValueError, or on a cache that is None the
\* AttributeError of line 144 or the TypeError of line 146
get_model_config(cache, model_name) ==
    LET name == IF model_name # None THEN model_name[1]
                ELSE IF cache.default_model = None THEN "deepseek"
                ELSE cache.default_model[1]
    IN  IF cache = None THEN None
        ELSE IF cache.models = None THEN None
        ELSE IF name \notin DOMAIN cache.models[1] THEN None
        ELSE LET model_config == cache.models[1][name]
             IN  IF ~({"api_base", "api_key", "model_name"} \subseteq DOMAIN model_config)
                 THEN None
                 ELSE Some(<<model_config.api_base, model_config.api_key,
                             model_config.model_name>>)

\* openai_client.py lines 24-26: the parameter is named _ and is not used
_get_llm_config_by_name(cache, name) == get_model_config(cache, None)

\* the configuration file of the conversations of this model
TheConfigCache ==
    [default_model |-> Some("deepseek"),
     models |-> Some([name \in {"deepseek", "volc-deepseek"} |-> ModelConfigOf(name)])]

(***************************************************************************)
(* The state.  pc is the position of the loop.  Where the generator runs   *)
(* on without giving up control:                                           *)
(*   "send"       about to call client.chat.completions.create (line 118)  *)
(*   "stream"     about to read the next chunk of the response (line 132)  *)
(*   "tools"      at the head of the loop over the records (line 235)      *)
(* where it is suspended, the consumer get_context having handled the      *)
(* event of the yield:                                                     *)
(*   "reasoning_content"  at the yield of line 142                         *)
(*   "content"    at the yield of line 146                                 *)
(*   "name"       at the yield of line 168                                 *)
(*   "arguments"  at the yield of line 175                                 *)
(*   "executing"  at the yield of line 234                                 *)
(*   "failed"     at the yield of line 264                                 *)
(*   "show"       at the yield of line 277                                 *)
(*   "await"      in await call_tool_func (line 278)                       *)
(*   "result"     at the yield of line 307                                 *)
(*   "separator"  at the yield of line 308                                 *)
(* and where it has ended:                                                 *)
(*   "done"       returned at line 230                                     *)
(*   "empty"      returned at line 223                                     *)
(*   "error"      left by an exception                                     *)
(***************************************************************************)
VARIABLES
    pc,
    \* the caller's list and the parameter tool_argument_to_show
    messages_, tool_argument_to_show,
    \* the locals of send_messages_stream_with_tool_call
    messages, content_all, current_round_content, tool_call_deltas_by_index,
    assistant_tool_calls_reconstructed,
    \* the 1-based position of tool_call_obj in the loop of line 235
    pos,
    \* the 1-based position of tool_call_delta in the loop of line 150 and of
    \* arg in the loop of line 276; 0 outside of the loop
    frag, arg,
    \* str(tool_result) of the local tool_result: None while it is not bound
    tool_result,
    \* the last event the generator has yielded: None before the first
    event,
    \* self.token_usage_total
    token_usage_total,
    \* llm_output of get_context (src/main.py)
    llm_output,
    \* the endpoint: the message lists it was sent, the chunks it streamed in
    \* this round, the number of chunks it streamed in all
    requests, stream, nchunks,
    \* the executor: its invocations with their outcome, and for each record of
    \* this round the branch it has taken
    calls, branches,
    \* the other conversation loop of the process while it does not run: the
    \* locals of its generator, the totals of its client, its endpoint and
    \* its executor
    suspended,
    \* the locals of send_messages_stream, and the concatenation of the
    \* strings it has yielded (printed by main, lines 323-324)
    full_response, finish_reason, yielded,
    \* the parameter config_name, _config_cache of the client's
    \* LLMConfigManager, and (api_base, api_key, model_name) of lines 47 and
    \* 104: None before the line and when it raised
    config_name, config_cache, llm_config

\* the three variables of the model configuration
configuration == <<config_name, config_cache, llm_config>>

\* the state of send_messages_stream
plain == <<full_response, finish_reason, yielded>>

\* the parameters of send_messages_stream_with_tool_call
parameters == <<messages_, tool_argument_to_show>>

vars == <<pc, messages_, tool_argument_to_show, messages, content_all,
          current_round_content, tool_call_deltas_by_index,
          assistant_tool_calls_reconstructed, pos, frag, arg, tool_result,
          event, token_usage_total, llm_output, requests, stream, nchunks,
          calls, branches, suspended, full_response, finish_reason, yielded,
          config_name, config_cache, llm_config>>

\* lines 15-21 and 104-109: a new client and a new generator on the caller's
\* list seed, as a record of the locals of the generator (lines 85-90,
\* 108-130, 183, 235), the attribute of its OpenAIClient (lines 17-21), and
\* what its endpoint, its executor and its caller have seen of it
NewLoop(at, seed, show) ==
    [pc |-> at, messages_ |-> seed, tool_argument_to_show |-> show,
     messages |-> seed, content_all |-> "", current_round_content |-> "",
     tool_call_deltas_by_index |-> <<>>,
     assistant_tool_calls_reconstructed |-> <<>>, pos |-> 1, frag |-> 0,
     arg |-> 0, tool_result |-> None, event |-> None,
     token_usage_total |-> Usage(0, 0, 0), llm_output |-> "",
     requests |-> <<>>, stream |-> <<>>, calls |-> <<>>, branches |-> <<>>]

\* the process runs one conversation only
NoLoop == NewLoop("none", <<>>, <<>>)

\* lines 15-21, 104-109 and main.py line 25
Init ==
    /\ pc = "send"
    /\ messages_ \in Seeds
    /\ tool_argument_to_show \in ArgumentsToShow
    /\ messages = messages_
    /\ content_all = ""
    /\ current_round_content = ""
    /\ tool_call_deltas_by_index = <<>>
    /\ assistant_tool_calls_reconstructed = <<>>
    /\ pos = 1
    /\ frag = 0
    /\ arg = 0
    /\ tool_result = None
    /\ event = None
    /\ token_usage_total = Usage(0, 0, 0)
    /\ llm_output = ""
    /\ requests = <<>>
    /\ stream = <<>>
    /\ nchunks = 0
    /\ calls = <<>>
    /\ branches = <<>>
    /\ suspended = NoLoop
    /\ full_response = ""
    /\ finish_reason = "length"
    /\ yielded = ""
    /\ config_name = Some("volc-deepseek")
    /\ config_cache = TheConfigCache
    /\ llm_config = _get_llm_config_by_name(config_cache, config_name)

\* a yield: the generator is suspended at the line that pc value at stands
\* for, and get_context has handled the event (main.py lines 27-33)
Yield(at, key, value) ==
    /\ pc' = at
    /\ event' = Event(key, value)
    /\ llm_output' = Consume(llm_output, event')

\* the accumulator of the content is set once, before the loop: the content
\* of the earlier rounds stays in it
DispatchContentKept ==
    /\ pc = "send"
    /\ Len(requests) < MaxRounds
    /\ requests' = Append(requests, messages)
    /\ tool_call_deltas_by_index' = <<>>
    /\ stream' = <<>>
    /\ branches' = <<>>
    /\ pc' = "stream"
    /\ UNCHANGED <<configuration, plain, suspended, parameters, messages,
                   content_all, current_round_content,
                   assistant_tool_calls_reconstructed, pos, frag, arg,
                   tool_result, event, token_usage_total, llm_output, nchunks,
                   calls>>

\* a cap of two rounds: the loop returns in place of the third request
DispatchCapped ==
    /\ pc = "send"
    /\ Len(requests) < MaxRounds
    /\ IF Len(requests) >= 2
       THEN /\ pc' = "done"
            /\ UNCHANGED <<requests, current_round_content,
                           tool_call_deltas_by_index, stream, branches>>
       ELSE /\ requests' = Append(requests, messages)
            /\ current_round_content' = ""
            /\ tool_call_deltas_by_index' = <<>>
            /\ stream' = <<>>
            /\ branches' = <<>>
            /\ pc' = "stream"
    /\ UNCHANGED <<configuration, plain, suspended, parameters, messages,
                   content_all, assistant_tool_calls_reconstructed, pos, frag,
                   arg, tool_result, event, token_usage_total, llm_output,
                   nchunks, calls>>

\* the history is trimmed before it is sent: the oldest message after the
\* system prompt is dropped once there are more than three
DispatchTrimmed ==
    /\ pc = "send"
    /\ Len(requests) < MaxRounds
    /\ messages' = IF Len(messages) > 3
                   THEN <<messages[1]>> \o SubSeq(messages, 3, Len(messages))
                   ELSE messages
    /\ requests' = Append(requests, messages')
    /\ current_round_content' = ""
    /\ tool_call_deltas_by_index' = <<>>
    /\ stream' = <<>>
    /\ branches' = <<>>
    /\ pc' = "stream"
    /\ UNCHANGED <<configuration, plain, suspended, parameters, content_all,
                   assistant_tool_calls_reconstructed, pos, frag, arg,
                   tool_result, event, token_usage_total, llm_output, nchunks,
                   calls>>

\* the map of the tool calls is set once, before the loop: the records of
\* the earlier rounds stay in it
DispatchMapKept ==
    /\ pc = "send"
    /\ Len(requests) < MaxRounds
    /\ requests' = Append(requests, messages)
    /\ current_round_content' = ""
    /\ stream' = <<>>
    /\ branches' = <<>>
    /\ pc' = "stream"
    /\ UNCHANGED <<configuration, plain, suspended, parameters, messages,
                   content_all, tool_call_deltas_by_index,
                   assistant_tool_calls_reconstructed, pos, frag, arg,
                   tool_result, event, token_usage_total, llm_output, nchunks,
                   calls>>

\* lines 111-130: the request is sent and the round's accumulators are reset
Dispatch ==
    /\ pc = "send"
    /\ Len(requests) < MaxRounds
    /\ requests' = Append(requests, messages)
    /\ current_round_content' = ""
    /\ tool_call_deltas_by_index' = <<>>
    /\ stream' = <<>>
    /\ branches' = <<>>
    /\ pc' = "stream"
    /\ UNCHANGED <<configuration, plain, suspended, parameters, messages,
                   content_all, assistant_tool_calls_reconstructed, pos, frag,
                   arg, tool_result, event, token_usage_total, llm_output,
                   nchunks, calls>>

\* line 118: create() raises; the exception leaves the generator
DispatchFails ==
    /\ pc = "send"
    /\ Len(requests) < MaxRounds
    /\ requests' = Append(requests, messages)
    /\ pc' = "error"
    /\ UNCHANGED <<configuration, plain, suspended, parameters, messages,
                   content_all, current_round_content,
                   tool_call_deltas_by_index,
                   assistant_tool_calls_reconstructed, pos, frag, arg,
                   tool_result, event, token_usage_total, llm_output, stream,
                   nchunks, calls, branches>>

\* the loop of line 150 from fragment k on, on the map d, up to its next
\* yield (line 168 or 175) or to its end, which is the end of the chunk
ToolCallDeltas(tool_calls, d, k) ==
    LET next == ToolCallsFrom(d, tool_calls, k)
    IN  /\ tool_call_deltas_by_index' = next.tool_call_deltas_by_index
        /\ frag' = next.frag
        /\ IF next.at = "name"
           THEN Yield("name", "tool_call",
                      Some("\n" \o CallingHint \o tool_calls[next.frag].function[1].name[1]
                           \o "\n\n"))
           ELSE IF next.at = "arguments"
           THEN Yield("arguments", "tool_call",
                      Some(tool_calls[next.frag].function[1].arguments[1]))
           ELSE pc' = "stream" /\ UNCHANGED <<event, llm_output>>

\* the delta of the chunk the loop is in, and its tool_calls
DeltaNow == Last(stream).choices[1].delta

ToolCallsNow == DeltaNow.tool_calls

\* lines 141-175: the delta is processed up to its next yield, or to its
\* end: from the test of line 141 (from = "reasoning") or, the generator
\* having been resumed at line 142, from the test of line 144
DeltaFrom(delta, from) ==
    IF from = "reasoning" /\ HasReasoning(delta)
    THEN \* lines 141-142: the value of the event is the attribute, None or
         \* Some(text)
         /\ Yield("reasoning_content", "reasoning_content",
                  delta.reasoning_content)
         /\ UNCHANGED <<current_round_content, tool_call_deltas_by_index, frag>>
    ELSE IF Truthy(delta.content)
    THEN \* lines 144-146
         /\ current_round_content' = current_round_content \o delta.content[1]
         /\ Yield("content", "content", Some(delta.content[1]))
         /\ UNCHANGED <<tool_call_deltas_by_index, frag>>
    ELSE /\ ToolCallDeltas(delta.tool_calls, tool_call_deltas_by_index, 1)
         /\ UNCHANGED current_round_content

\* "if" without "else": a chunk with usage is counted and its choices are
\* processed too
StreamChunkUsageAlsoDecoded(chunk) ==
    /\ pc = "stream"
    /\ nchunks < MaxChunks
    /\ nchunks' = nchunks + 1
    /\ stream' = Append(stream, chunk)
    /\ token_usage_total' =
           IF chunk.usage # None
           THEN update_total_token_usage(token_usage_total, chunk.usage[1])
           ELSE token_usage_total
    /\ IF chunk.choices = <<>>
       THEN /\ pc' = IF chunk.usage # None THEN "stream" ELSE "error"
            /\ UNCHANGED <<current_round_content, tool_call_deltas_by_index,
                           frag, event, llm_output>>
       ELSE LET delta == chunk.choices[1].delta
            IN  DeltaFrom(delta, "reasoning")
    /\ UNCHANGED <<configuration, plain, suspended, parameters, messages,
                   content_all, assistant_tool_calls_reconstructed, pos, arg,
                   tool_result, requests, calls, branches>>

\* a chunk without choices is skipped: the IndexError of line 140 is swallowed
StreamChunkWithoutChoicesSkipped(chunk) ==
    /\ pc = "stream"
    /\ nchunks < MaxChunks
    /\ nchunks' = nchunks + 1
    /\ stream' = Append(stream, chunk)
    /\ IF chunk.usage # None
       THEN /\ token_usage_total' =
                   update_total_token_usage(token_usage_total, chunk.usage[1])
            /\ UNCHANGED <<pc, current_round_content, tool_call_deltas_by_index,
                           frag, event, llm_output>>
       ELSE IF chunk.choices = <<>>
       THEN /\ UNCHANGED <<pc, token_usage_total, current_round_content,
                           tool_call_deltas_by_index, frag, event, llm_output>>
       ELSE LET delta == chunk.choices[1].delta
            IN  /\ UNCHANGED token_usage_total
                /\ DeltaFrom(delta, "reasoning")
    /\ UNCHANGED <<configuration, plain, suspended, parameters, messages,
                   content_all, assistant_tool_calls_reconstructed, pos, arg,
                   tool_result, requests, calls, branches>>

\* lines 132-175: the next chunk is read and processed up to the first yield
\* of its delta, or to its end when it has none
StreamChunk(chunk) ==
    /\ pc = "stream"
    /\ nchunks < MaxChunks
    /\ nchunks' = nchunks + 1
    /\ stream' = Append(stream, chunk)
    /\ IF chunk.usage # None
       THEN /\ token_usage_total' =
                   update_total_token_usage(token_usage_total, chunk.usage[1])
            /\ UNCHANGED <<pc, current_round_content, tool_call_deltas_by_index,
                           frag, event, llm_output>>
       ELSE IF chunk.choices = <<>>
       THEN \* line 140: IndexError
            /\ pc' = "error"
            /\ UNCHANGED <<token_usage_total, current_round_content,
                           tool_call_deltas_by_index, frag, event, llm_output>>
       ELSE LET delta == chunk.choices[1].delta
            IN  /\ UNCHANGED token_usage_total
                /\ DeltaFrom(delta, "reasoning")
    /\ UNCHANGED <<configuration, plain, suspended, parameters, messages,
                   content_all, assistant_tool_calls_reconstructed, pos, arg,
                   tool_result, requests, calls, branches>>

\* lines 142-175: the generator is resumed after the event of the
\* reasoning
AfterReasoning ==
    /\ pc = "reasoning_content"
    /\ DeltaFrom(DeltaNow, "content")
    /\ UNCHANGED <<configuration, plain, suspended, parameters, messages,
                   content_all, assistant_tool_calls_reconstructed, pos, arg,
                   tool_result, token_usage_total, requests, stream, nchunks,
                   calls, branches>>

\* lines 146-175: the generator is resumed after the event of the content
AfterContent ==
    /\ pc = "content"
    /\ ToolCallDeltas(ToolCallsNow, tool_call_deltas_by_index, 1)
    /\ UNCHANGED <<configuration, plain, suspended, parameters, messages,
                   content_all, current_round_content,
                   assistant_tool_calls_reconstructed, pos, arg, tool_result,
                   token_usage_total, requests, stream, nchunks, calls,
                   branches>>

\* lines 168-175: the generator is resumed after the event of the name; the
\* name is set, and the arguments of the fragment are yielded if it has any
AfterName ==
    /\ pc = "name"
    /\ LET tool_call_delta == ToolCallsNow[frag]
           d == SetToolCall(tool_call_deltas_by_index, tool_call_delta, "name")
       IN  IF CarriesArguments(tool_call_delta)
           THEN /\ tool_call_deltas_by_index' = d
                /\ Yield("arguments", "tool_call",
                         Some(tool_call_delta.function[1].arguments[1]))
                /\ UNCHANGED frag
           ELSE ToolCallDeltas(ToolCallsNow, d, frag + 1)
    /\ UNCHANGED <<configuration, plain, suspended, parameters, messages,
                   content_all, current_round_content,
                   assistant_tool_calls_reconstructed, pos, arg, tool_result,
                   token_usage_total, requests, stream, nchunks, calls,
                   branches>>

\* lines 175-180 and 150: the generator is resumed after the event of the
\* arguments; they are added to the record
AfterArguments ==
    /\ pc = "arguments"
    /\ ToolCallDeltas(ToolCallsNow,
                      SetToolCall(tool_call_deltas_by_index, ToolCallsNow[frag],
                                  "arguments"),
                      frag + 1)
    /\ UNCHANGED <<configuration, plain, suspended, parameters, messages,
                   content_all, current_round_content,
                   assistant_tool_calls_reconstructed, pos, arg, tool_result,
                   token_usage_total, requests, stream, nchunks, calls,
                   branches>>

\* line 132: reading the stream raises
StreamFails ==
    /\ pc = "stream"
    /\ pc' = "error"
    /\ UNCHANGED <<configuration, plain, suspended, parameters, messages,
                   content_all, current_round_content,
                   tool_call_deltas_by_index,
                   assistant_tool_calls_reconstructed, pos, frag, arg,
                   tool_result, event, token_usage_total, llm_output,
                   requests, stream, nchunks, calls, branches>>

\* line 109 without .copy(): messages is the caller's list, and the
\* assistant message is appended to it
StreamEndOnCallersList ==
    /\ pc = "stream"
    /\ LET tool_calls == Reconstruct(tool_call_deltas_by_index)
           has_content == NonBlank(current_round_content)
           has_tool_calls == tool_calls # <<>>
           assistant_message == AssistantMessage(current_round_content, tool_calls)
       IN  /\ assistant_tool_calls_reconstructed' = tool_calls
           /\ pos' = 1
           /\ IF has_content \/ has_tool_calls
              THEN messages' = Append(messages, assistant_message)
              ELSE UNCHANGED messages
           /\ messages_' = messages'
           /\ IF has_tool_calls
              THEN /\ Yield("executing", "tool_call",
                            Some("\n\n" \o ExecutingHint \o "\n\n"))
                   /\ UNCHANGED content_all
              ELSE /\ content_all' = content_all \o current_round_content
                   /\ pc' = IF has_content THEN "done" ELSE "empty"
                   /\ UNCHANGED <<event, llm_output>>
    /\ UNCHANGED <<configuration, plain, suspended, tool_argument_to_show,
                   current_round_content, tool_call_deltas_by_index, frag,
                   arg, tool_result, token_usage_total, requests, stream,
                   nchunks, calls, branches>>

\* lines 182-234: the stream ended; the records are built, the assistant
\* message is appended, and the loop returns or yields before the tools
StreamEnd ==
    /\ pc = "stream"
    /\ LET tool_calls == Reconstruct(tool_call_deltas_by_index)
           has_content == NonBlank(current_round_content)
           has_tool_calls == tool_calls # <<>>
           assistant_message == AssistantMessage(current_round_content, tool_calls)
       IN  /\ assistant_tool_calls_reconstructed' = tool_calls
           /\ pos' = 1
           /\ IF has_content \/ has_tool_calls
              THEN messages' = Append(messages, assistant_message)
              ELSE UNCHANGED messages
           /\ IF has_tool_calls
              THEN /\ Yield("executing", "tool_call",
                            Some("\n\n" \o ExecutingHint \o "\n\n"))
                   /\ UNCHANGED content_all
              ELSE /\ content_all' = content_all \o current_round_content
                   /\ pc' = IF has_content THEN "done" ELSE "empty"
                   /\ UNCHANGED <<event, llm_output>>
    /\ UNCHANGED <<configuration, plain, suspended, parameters,
                   current_round_content, tool_call_deltas_by_index, frag,
                   arg, tool_result, token_usage_total, requests, stream,
                   nchunks, calls, branches>>

\* lines 234-235: the generator is resumed after the event of line 234
AfterExecuting ==
    /\ pc = "executing"
    /\ pc' = "tools"
    /\ UNCHANGED <<configuration, plain, suspended, parameters, messages,
                   content_all, current_round_content,
                   tool_call_deltas_by_index,
                   assistant_tool_calls_reconstructed, pos, frag, arg,
                   tool_result, event, token_usage_total, llm_output,
                   requests, stream, nchunks, calls, branches>>

\* the end of one iteration of the loop of line 235: the next record, or the
\* next round after the last one
NextRecord ==
    /\ pos' = pos + 1
    /\ pc' = IF pos = Len(assistant_tool_calls_reconstructed) THEN "send" ELSE "tools"

\* the tool_result of a branch is bound and line 307 yields it
YieldResult(result, branch) ==
    /\ tool_result' = Some(result)
    /\ branches' = Append(branches, branch)
    /\ Yield("result", "tool_call", Some(ResultHint \o result))

\* without the await of line 278: the call is started, tool_result is the
\* coroutine, and the loop goes on while the call runs
CallToolNotAwaited(parsed_arguments, i) ==
    LET tool_name == assistant_tool_calls_reconstructed[pos].function.name[1]
    IN  IF i > Len(tool_argument_to_show)
        THEN /\ calls' = Append(calls,
                     [round |-> Len(requests), pos |-> pos, name |-> tool_name,
                      arguments |-> parsed_arguments, outcome |-> None])
             /\ arg' = 0
             /\ YieldResult("<coroutine object call_tool>", "returned")
        ELSE LET e == SubscriptError(parsed_arguments, tool_argument_to_show[i])
             IN  IF e # None
                 THEN /\ arg' = 0
                      /\ YieldResult(ExecutionFailedResult(tool_name, e[1]), "not_shown")
                      /\ UNCHANGED calls
                 ELSE /\ arg' = i
                      /\ Yield("show", tool_argument_to_show[i],
                               Some("\n\n" \o PyStr(DictGet(parsed_arguments.v,
                                                       tool_argument_to_show[i]))
                                      \o "\n\n"))
                      /\ UNCHANGED <<calls, tool_result, branches>>

\* lines 276-278 and 295-307 from the i-th element of tool_argument_to_show
\* on: the argument is yielded, or parsed_arguments[arg] raises and the
\* diagnostic is yielded; after the last one the executor is called
CallTool(parsed_arguments, i) ==
    LET tool_name == assistant_tool_calls_reconstructed[pos].function.name[1]
    IN  IF i > Len(tool_argument_to_show)
        THEN /\ calls' = Append(calls,
                     [round |-> Len(requests), pos |-> pos, name |-> tool_name,
                      arguments |-> parsed_arguments, outcome |-> None])
             /\ arg' = 0
             /\ pc' = "await"
             /\ UNCHANGED <<tool_result, branches, event, llm_output>>
        ELSE LET e == SubscriptError(parsed_arguments, tool_argument_to_show[i])
             IN  IF e # None
                 THEN /\ arg' = 0
                      /\ YieldResult(ExecutionFailedResult(tool_name, e[1]), "not_shown")
                      /\ UNCHANGED calls
                 ELSE /\ arg' = i
                      /\ Yield("show", tool_argument_to_show[i],
                               Some("\n\n" \o PyStr(DictGet(parsed_arguments.v,
                                                       tool_argument_to_show[i]))
                                      \o "\n\n"))
                      /\ UNCHANGED <<calls, tool_result, branches>>

\* lines 235-307: one record, up to its first yield or to the await of the
\* executor
ToolCall ==
    /\ pc = "tools"
    /\ LET tool_call_obj == assistant_tool_calls_reconstructed[pos]
           tool_name == tool_call_obj.function.name
           arguments_str == tool_call_obj.function.arguments
           parsed == json_loads(arguments_str)
       IN  IF Malformed(tool_call_obj)
           THEN \* lines 241-264
                /\ messages' = AppendMalformed(messages,
                                   assistant_tool_calls_reconstructed, tool_call_obj)
                /\ branches' = Append(branches, "incomplete")
                /\ Yield("failed", "tool_call", Some(FailedHint))
                /\ UNCHANGED <<arg, tool_result, calls>>
           ELSE IF ~parsed.ok
           THEN \* lines 279-294 and 307
                /\ YieldResult(InvalidJsonResult(tool_name[1],
                                   "JSONDecodeError",
                                   JSONDecodeErrorStr(arguments_str, parsed),
                                   arguments_str),
                               "invalid_json")
                /\ UNCHANGED <<messages, arg, calls>>
           ELSE /\ CallTool(parsed.val, 1)
                /\ UNCHANGED messages
    /\ UNCHANGED <<configuration, plain, suspended, parameters, content_all,
                   current_round_content, tool_call_deltas_by_index,
                   assistant_tool_calls_reconstructed, pos, frag,
                   token_usage_total, requests, stream, nchunks>>

\* lines 264-265 and 235: the generator is resumed after the event of the
\* malformed record
AfterFailed ==
    /\ pc = "failed"
    /\ NextRecord
    /\ UNCHANGED <<configuration, plain, suspended, parameters, messages,
                   content_all, current_round_content,
                   tool_call_deltas_by_index,
                   assistant_tool_calls_reconstructed, frag, arg, tool_result,
                   event, token_usage_total, llm_output, requests, stream,
                   nchunks, calls, branches>>

\* lines 276-278: the generator is resumed after the event of an argument
AfterShown ==
    /\ pc = "show"
    /\ CallTool(json_loads(assistant_tool_calls_reconstructed[pos].function.arguments).val,
                arg + 1)
    /\ UNCHANGED <<configuration, plain, suspended, parameters, messages,
                   content_all, current_round_content,
                   tool_call_deltas_by_index,
                   assistant_tool_calls_reconstructed, pos, frag,
                   token_usage_total, requests, stream, nchunks>>

\* lines 278 and 307: the executor returns result
ToolReturns(result) ==
    /\ pc = "await"
    /\ calls' = [calls EXCEPT ![Len(calls)].outcome = <<"returned", result>>]
    /\ YieldResult(PyStr(result), "returned")
    /\ UNCHANGED <<configuration, plain, suspended, parameters, messages,
                   content_all, current_round_content,
                   tool_call_deltas_by_index,
                   assistant_tool_calls_reconstructed, pos, frag, arg,
                   token_usage_total, requests, stream, nchunks>>

\* lines 278-307: the executor raises the exception e.  The except clause
\* of line 279 takes an instance of JSONDecodeError, whoever raised it; the
\* one of line 295 takes every other instance of Exception; any other
\* exception leaves the generator
ToolRaises(e) ==
    /\ pc = "await"
    /\ calls' = [calls EXCEPT ![Len(calls)].outcome = <<"raised", e>>]
    /\ LET tool_call_obj == assistant_tool_calls_reconstructed[pos]
       IN  IF isinstance(e, "JSONDecodeError")
           THEN YieldResult(InvalidJsonResult(tool_call_obj.function.name[1],
                                              e.type, e.detail,
                                              tool_call_obj.function.arguments),
                            "raised_invalid_json")
           ELSE IF isinstance(e, "Exception")
           THEN YieldResult(ExecutionFailedResult(tool_call_obj.function.name[1],
                                                  e.detail),
                            "raised")
           ELSE /\ pc' = "error"
                /\ UNCHANGED <<tool_result, event, llm_output, branches>>
    /\ UNCHANGED <<configuration, plain, suspended, parameters, messages,
                   content_all, current_round_content,
                   tool_call_deltas_by_index,
                   assistant_tool_calls_reconstructed, pos, frag, arg,
                   token_usage_total, requests, stream, nchunks>>

\* without the event of line 308: the caller sees no separator
AfterResultNoSeparator ==
    /\ pc = "result"
    /\ pc' = "separator"
    /\ UNCHANGED <<configuration, plain, suspended, parameters, messages,
                   content_all, current_round_content,
                   tool_call_deltas_by_index,
                   assistant_tool_calls_reconstructed, pos, frag, arg,
                   tool_result, event, llm_output, token_usage_total,
                   requests, stream, nchunks, calls, branches>>

\* lines 307-308: the generator is resumed after the event of the result and
\* yields the separator
AfterResult ==
    /\ pc = "result"
    /\ Yield("separator", "content", Some("\n\n"))
    /\ UNCHANGED <<configuration, plain, suspended, parameters, messages,
                   content_all, current_round_content,
                   tool_call_deltas_by_index,
                   assistant_tool_calls_reconstructed, pos, frag, arg,
                   tool_result, token_usage_total, requests, stream, nchunks,
                   calls, branches>>

\* lines 308-315 and 235: the generator is resumed after the separator and
\* appends the tool message
AfterSeparator ==
    /\ pc = "separator"
    /\ messages' = Append(messages,
                          ToolMessage(tool_result[1],
                                      assistant_tool_calls_reconstructed[pos].id[1]))
    /\ NextRecord
    /\ UNCHANGED <<configuration, plain, suspended, parameters, content_all,
                   current_round_content, tool_call_deltas_by_index,
                   assistant_tool_calls_reconstructed, frag, arg, tool_result,
                   event, token_usage_total, llm_output, requests, stream,
                   nchunks, calls, branches>>

\* the consumer resumes the generator where it is suspended at a yield
Resume ==
    \/ AfterReasoning
    \/ AfterContent
    \/ AfterName
    \/ AfterArguments
    \/ AfterExecuting
    \/ AfterFailed
    \/ AfterShown
    \/ AfterResult
    \/ AfterSeparator

Next ==
    \/ Dispatch
    \/ DispatchFails
    \/ \E chunk \in Chunks : StreamChunk(chunk)
    \/ StreamFails
    \/ StreamEnd
    \/ ToolCall
    \/ \E i \in 1..Len(Results) : ToolReturns(Results[i])
    \/ \E e \in Failures : ToolRaises(e)
    \/ Resume

Spec == Init /\ [][Next]_vars

(***************************************************************************)
(* The life of one client instance: after a conversation has ended, the    *)
(* caller starts another one on the same OpenAIClient.  The locals of the  *)
(* generator are new (lines 104-109), self.token_usage_total is the        *)
(* attribute of the instance, set in __init__ only (lines 15-21).  The     *)
(* logs of the endpoint and of the executor start again for the new        *)
(* conversation; the number of chunks streamed in all goes on.             *)
(***************************************************************************)
NewConversation ==
    /\ pc \in {"done", "empty", "error"}
    /\ pc' = "send"
    /\ messages_' \in Seeds
    /\ tool_argument_to_show' \in ArgumentsToShow
    /\ messages' = messages_'
    /\ content_all' = ""
    /\ current_round_content' = ""
    /\ tool_call_deltas_by_index' = <<>>
    /\ assistant_tool_calls_reconstructed' = <<>>
    /\ pos' = 1
    /\ frag' = 0
    /\ arg' = 0
    /\ tool_result' = None
    /\ event' = None
    /\ llm_output' = ""
    /\ requests' = <<>>
    /\ stream' = <<>>
    /\ calls' = <<>>
    /\ branches' = <<>>
    /\ UNCHANGED <<configuration, plain, token_usage_total, nchunks, suspended>>

NextInstance ==
    \/ Next
    \/ NewConversation

SpecInstance == Init /\ [][NextInstance]_vars

(***************************************************************************)
(* Two conversations in one process, each a generator of its own client    *)
(* (main.py line 13 makes a client per conversation), both started on the  *)
(* same list of the caller.  One runs, the other is suspended; the event   *)
(* loop goes from one to the other where the running one is suspended: at  *)
(* the await of line 278, at a yield (lines 142, 146, 168, 175, 234, 264,  *)
(* 277, 307, 308), or at its end.  What a suspended generator keeps is its *)
(* frame: its parameters and locals; what its client keeps is its          *)
(* attribute token_usage_total; the module has no other variable (lines    *)
(* 1-11: the logger).  The chunks streamed to both count towards           *)
(* MaxChunks.                                                              *)
(***************************************************************************)
\* the conversation that runs, as a record
Running ==
    [pc |-> pc, messages_ |-> messages_,
     tool_argument_to_show |-> tool_argument_to_show, messages |-> messages,
     content_all |-> content_all,
     current_round_content |-> current_round_content,
     tool_call_deltas_by_index |-> tool_call_deltas_by_index,
     assistant_tool_calls_reconstructed |-> assistant_tool_calls_reconstructed,
     pos |-> pos, frag |-> frag, arg |-> arg, tool_result |-> tool_result,
     event |-> event, token_usage_total |-> token_usage_total,
     llm_output |-> llm_output, requests |-> requests, stream |-> stream,
     calls |-> calls, branches |-> branches]

\* the positions of a generator suspended at a yield
YieldPositions ==
    {"reasoning_content", "content", "name", "arguments", "executing",
     "failed", "show", "result", "separator"}

\* the running loop is at an await, at a yield, or at its end
AtSuspension == pc \in YieldPositions \cup {"await", "done", "empty", "error"}

\* the other loop has not begun, or is at an await or at a yield
Resumable == suspended.pc \in YieldPositions \cup {"send", "await"}

\* the history is the caller's list itself, not a copy (line 109 without
\* .copy()): both conversations append to the one list
SwitchSharedHistory ==
    /\ AtSuspension
    /\ Resumable
    /\ pc' = suspended.pc
    /\ messages_' = suspended.messages_
    /\ tool_argument_to_show' = suspended.tool_argument_to_show
    /\ content_all' = suspended.content_all
    /\ current_round_content' = suspended.current_round_content
    /\ tool_call_deltas_by_index' = suspended.tool_call_deltas_by_index
    /\ assistant_tool_calls_reconstructed' =
           suspended.assistant_tool_calls_reconstructed
    /\ pos' = suspended.pos
    /\ frag' = suspended.frag
    /\ arg' = suspended.arg
    /\ tool_result' = suspended.tool_result
    /\ event' = suspended.event
    /\ token_usage_total' = suspended.token_usage_total
    /\ llm_output' = suspended.llm_output
    /\ requests' = suspended.requests
    /\ stream' = suspended.stream
    /\ calls' = suspended.calls
    /\ branches' = suspended.branches
    /\ suspended' = Running
    /\ UNCHANGED <<configuration, plain, messages, nchunks>>

\* the event loop suspends the running conversation and resumes the other
Switch ==
    /\ AtSuspension
    /\ Resumable
    /\ pc' = suspended.pc
    /\ messages_' = suspended.messages_
    /\ tool_argument_to_show' = suspended.tool_argument_to_show
    /\ messages' = suspended.messages
    /\ content_all' = suspended.content_all
    /\ current_round_content' = suspended.current_round_content
    /\ tool_call_deltas_by_index' = suspended.tool_call_deltas_by_index
    /\ assistant_tool_calls_reconstructed' =
           suspended.assistant_tool_calls_reconstructed
    /\ pos' = suspended.pos
    /\ frag' = suspended.frag
    /\ arg' = suspended.arg
    /\ tool_result' = suspended.tool_result
    /\ event' = suspended.event
    /\ token_usage_total' = suspended.token_usage_total
    /\ llm_output' = suspended.llm_output
    /\ requests' = suspended.requests
    /\ stream' = suspended.stream
    /\ calls' = suspended.calls
    /\ branches' = suspended.branches
    /\ suspended' = Running
    /\ UNCHANGED <<configuration, plain, nchunks>>

\* both conversations are new; the second one waits for the first one's
\* first suspension
InitTwo ==
    /\ pc = "send"
    /\ messages_ \in Seeds
    /\ tool_argument_to_show \in ArgumentsToShow
    /\ messages = messages_
    /\ content_all = ""
    /\ current_round_content = ""
    /\ tool_call_deltas_by_index = <<>>
    /\ assistant_tool_calls_reconstructed = <<>>
    /\ pos = 1
    /\ frag = 0
    /\ arg = 0
    /\ tool_result = None
    /\ event = None
    /\ token_usage_total = Usage(0, 0, 0)
    /\ llm_output = ""
    /\ requests = <<>>
    /\ stream = <<>>
    /\ nchunks = 0
    /\ calls = <<>>
    /\ branches = <<>>
    /\ suspended = NewLoop("send", messages_, tool_argument_to_show)
    /\ full_response = ""
    /\ finish_reason = "length"
    /\ yielded = ""
    /\ config_name = Some("volc-deepseek")
    /\ config_cache = TheConfigCache
    /\ llm_config = _get_llm_config_by_name(config_cache, config_name)

\* the chunks the endpoint streams to the two conversations: text of an
\* endpoint that reports its reasoning, the usage report, and the two chunks
\* of the call read_file({"a": 1.5}), the second of which also begins a
\* record without id and name
TwoChunks ==
    { Reasoning(DeltaChunk(None, Some("Hel"), <<>>, None), None),
      [usage |-> Some(Usage(1, 2, 3)), choices |-> <<>>],
      DeltaChunk(None, None, <<Frag(1, Some("c2"), Some("read_file"), Some("{\n\"a\""))>>, None),
      DeltaChunk(None, None, <<Frag(1, None, None, Some(": 1.5}")),
                               Frag(0, Some(""), Some(""), Some("}"))>>, None) }

StreamChunkTwo(chunk) ==
    /\ chunk \in TwoChunks
    /\ StreamChunk(chunk)

NextTwo ==
    \/ Dispatch
    \/ DispatchFails
    \/ \E chunk \in Chunks : StreamChunkTwo(chunk)
    \/ StreamFails
    \/ StreamEnd
    \/ ToolCall
    \/ \E i \in 1..Len(Results) : ToolReturns(Results[i])
    \/ \E e \in Failures : ToolRaises(e)
    \/ Resume
    \/ Switch

SpecTwo == InitTwo /\ [][NextTwo]_vars

(***************************************************************************)
(* Cancellation.  The function takes no cancellation signal and tests      *)
(* none (lines 83-126 and 235-278); what can cancel it is asyncio: the     *)
(* CancelledError of a cancelled task is raised by the await of line 278.  *)
(* It is a BaseException, so the except clauses of lines 279 and 295 do    *)
(* not catch it and it leaves the generator.  So does every exception of   *)
(* the executor itself that is no Exception (Exits).                       *)
(***************************************************************************)
Cancel ==
    /\ pc = "await"
    /\ pc' = "error"
    /\ calls' = [calls EXCEPT ![Len(calls)].outcome = <<"cancelled">>]
    /\ UNCHANGED <<configuration, plain, suspended, parameters, messages,
                   content_all, current_round_content,
                   tool_call_deltas_by_index,
                   assistant_tool_calls_reconstructed, pos, frag, arg,
                   tool_result, event, token_usage_total, llm_output,
                   requests, stream, nchunks, branches>>

NextCancel ==
    \/ Next
    \/ Cancel
    \/ \E e \in Exits : ToolRaises(e)

SpecCancel == Init /\ [][NextCancel]_vars

(***************************************************************************)
(* Termination.  The code has no round counter (while True, line 111); the *)
(* bound MaxRounds is the model's.  The endpoint is taken to answer, at    *)
(* the latest in round MaxRounds, with a round without tool calls, and     *)
(* endpoint, executor, consumer and loop are taken not to stop while they  *)
(* can take a step: a request is answered, a stream ends, a call returns,  *)
(* the consumer resumes the generator after every event, and the           *)
(* synchronous stretch of lines 235-278, which has a branch for every      *)
(* record, runs to its end: the loop does not stay for ever at a yield or  *)
(* at "tools".                                                             *)
(***************************************************************************)
NoToolCalls(chunk) ==
    IF chunk.usage # None \/ chunk.choices = <<>> THEN TRUE
    ELSE chunk.choices[1].delta.tool_calls = <<>>

StreamChunkLive(chunk) ==
    /\ Len(requests) = MaxRounds => NoToolCalls(chunk)
    /\ StreamChunk(chunk)

NextLive ==
    \/ Dispatch
    \/ DispatchFails
    \/ \E chunk \in Chunks : StreamChunkLive(chunk)
    \/ StreamFails
    \/ StreamEnd
    \/ ToolCall
    \/ \E i \in 1..Len(Results) : ToolReturns(Results[i])
    \/ \E e \in Failures : ToolRaises(e)
    \/ Resume

\* termination does not depend on the caller's history: one seed
InitLive ==
    /\ Init
    /\ Len(messages_) = 2

SpecLive ==
    /\ InitLive
    /\ [][NextLive]_vars
    /\ WF_vars(Dispatch \/ DispatchFails)
    /\ WF_vars(StreamEnd)
    /\ WF_vars(\E i \in 1..Len(Results) : ToolReturns(Results[i]))
    /\ []<>(pc \notin YieldPositions \cup {"tools"})

(***************************************************************************)
(* send_messages_stream (lines 34-81), the generator without tools.  Its   *)
(* positions are                                                           *)
(*   "request"   at the test of the while and the create of lines 52-53    *)
(*   "response"  in the loop over the chunks of the response (line 62)     *)
(*   "text"      suspended at the yield of line 69, main having printed    *)
(*               the chunk (line 324)                                      *)
(*   "stopped"   after the while (line 81)                                 *)
(*   "error"     left by an exception                                      *)
(* The code does not count the requests; MaxRounds is the model's bound.   *)
(***************************************************************************)
\* the chunks the endpoint streams to send_messages_stream
PlainChunks ==
    { \* text
      DeltaChunk(None, Some("Hel"), <<>>, None),
      \* the empty text
      DeltaChunk(None, Some(""), <<>>, None),
      \* text, cut off
      DeltaChunk(None, Some("lo"), <<>>, Some("length")),
      \* the end of the answer
      DeltaChunk(None, None, <<>>, Some("stop")),
      \* the usage report: no choices
      [usage |-> Some(Usage(1, 2, 3)), choices |-> <<>>],
      \* a usage report that also carries text and the end of the answer
      DeltaChunk(Some(Usage(2, 0, 2)), Some("lo"), <<>>, Some("stop")),
      \* neither usage nor a choice
      [usage |-> None, choices |-> <<>>] }

\* lines 77-79
PrefixMessage(content) == [role |-> "assistant", content |-> content, prefix |-> TRUE]

\* line 52: the test of the while
Continues(reason, response) == reason # "stop" \/ response = ""

\* lines 47-51 and main line 322
InitPlain ==
    /\ pc = "request"
    /\ messages_ \in Seeds
    /\ tool_argument_to_show = <<>>
    /\ messages = messages_
    /\ content_all = ""
    /\ current_round_content = ""
    /\ tool_call_deltas_by_index = <<>>
    /\ assistant_tool_calls_reconstructed = <<>>
    /\ pos = 1
    /\ frag = 0
    /\ arg = 0
    /\ tool_result = None
    /\ event = None
    /\ token_usage_total = Usage(0, 0, 0)
    /\ llm_output = ""
    /\ requests = <<>>
    /\ stream = <<>>
    /\ nchunks = 0
    /\ calls = <<>>
    /\ branches = <<>>
    /\ suspended = NoLoop
    /\ full_response = ""
    /\ finish_reason = "length"
    /\ yielded = ""
    /\ config_name = None
    /\ config_cache = TheConfigCache
    /\ llm_config = _get_llm_config_by_name(config_cache, config_name)

\* the variables send_messages_stream has none of
tool_loop == <<tool_argument_to_show, content_all, current_round_content,
               tool_call_deltas_by_index, assistant_tool_calls_reconstructed,
               pos, frag, arg, tool_result, event, llm_output, calls, branches,
               suspended>>

\* lines 53-60: the request is sent
Request ==
    /\ pc = "request"
    /\ Len(requests) < MaxRounds
    /\ requests' = Append(requests, messages)
    /\ stream' = <<>>
    /\ pc' = "response"
    /\ UNCHANGED <<configuration, plain, tool_loop, messages_, messages,
                   token_usage_total, nchunks>>

\* line 53: create() raises; the exception leaves the generator
RequestFails ==
    /\ pc = "request"
    /\ Len(requests) < MaxRounds
    /\ requests' = Append(requests, messages)
    /\ pc' = "error"
    /\ UNCHANGED <<configuration, plain, tool_loop, messages_, messages,
                   token_usage_total, stream, nchunks>>

\* lines 73-75
FinishReason(chunk, reason) ==
    IF chunk.choices # <<>> /\ Truthy(chunk.choices[1].finish_reason)
    THEN chunk.choices[1].finish_reason[1]
    ELSE reason

\* lines 62-75: the next chunk is read and processed up to the yield of
\* line 69, or to its end when it has no content
ResponseChunk(chunk) ==
    /\ pc = "response"
    /\ nchunks < MaxChunks
    /\ nchunks' = nchunks + 1
    /\ stream' = Append(stream, chunk)
    /\ IF chunk.usage # None
       THEN /\ token_usage_total' =
                   update_total_token_usage(token_usage_total, chunk.usage[1])
            /\ UNCHANGED <<pc, finish_reason, yielded>>
       ELSE IF chunk.choices # <<>> /\ chunk.choices[1].delta.content # None
       THEN /\ yielded' = yielded \o chunk.choices[1].delta.content[1]
            /\ pc' = "text"
            /\ UNCHANGED <<token_usage_total, finish_reason>>
       ELSE /\ finish_reason' = FinishReason(chunk, finish_reason)
            /\ UNCHANGED <<pc, token_usage_total, yielded>>
    /\ UNCHANGED <<configuration, tool_loop, messages_, messages,
                   full_response, requests>>

\* lines 69-75: the generator is resumed after the yield; the content is
\* added to the response and the finish reason is read
AfterText ==
    /\ pc = "text"
    /\ full_response' = full_response \o Last(stream).choices[1].delta.content[1]
    /\ finish_reason' = FinishReason(Last(stream), finish_reason)
    /\ pc' = "response"
    /\ UNCHANGED <<configuration, tool_loop, messages_, messages, yielded,
                   token_usage_total, requests, stream, nchunks>>

\* line 62: reading the stream raises
ResponseFails ==
    /\ pc = "response"
    /\ pc' = "error"
    /\ UNCHANGED <<configuration, plain, tool_loop, messages_, messages,
                   token_usage_total, requests, stream, nchunks>>

\* lines 77-79 and 52: the stream ended; the prefix message is appended and
\* the while is tested
ResponseEnd ==
    /\ pc = "response"
    /\ messages' = Append(messages, PrefixMessage(full_response))
    /\ pc' = IF Continues(finish_reason, full_response) THEN "request" ELSE "stopped"
    /\ UNCHANGED <<configuration, plain, tool_loop, messages_,
                   token_usage_total, requests, stream, nchunks>>

NextPlain ==
    \/ Request
    \/ RequestFails
    \/ \E chunk \in PlainChunks : ResponseChunk(chunk)
    \/ AfterText
    \/ ResponseFails
    \/ ResponseEnd

SpecPlain == InitPlain /\ [][NextPlain]_vars

(***************************************************************************)
(* One call of the client, of either generator.                            *)
(***************************************************************************)
InitCalls ==
    \/ Init
    \/ InitPlain

NextCalls ==
    \/ Next
    \/ NextPlain

SpecCalls == InitCalls /\ [][NextCalls]_vars

(***************************************************************************)
(* The first line of both generators (lines 47 and 104): the model         *)
(* configuration of the call.  pc is "config" before the line,             *)
(* "configured" after it, and "error" when get_model_config raised.  The   *)
(* client lives on: its owner calls it again, and reloads the              *)
(* configuration file through client.config_manager.                       *)
(***************************************************************************)
\* a client on any configuration file, called with the default of line 37
\* or with a name
InitConfig ==
    /\ pc = "config"
    /\ config_name \in {None} \cup {Some(name) : name \in ConfigNames}
    /\ config_cache \in ConfigCaches
    /\ llm_config = None
    /\ messages_ \in Seeds
    /\ tool_argument_to_show = <<>>
    /\ messages = <<>>
    /\ content_all = ""
    /\ current_round_content = ""
    /\ tool_call_deltas_by_index = <<>>
    /\ assistant_tool_calls_reconstructed = <<>>
    /\ pos = 1
    /\ frag = 0
    /\ arg = 0
    /\ tool_result = None
    /\ event = None
    /\ token_usage_total = Usage(0, 0, 0)
    /\ llm_output = ""
    /\ requests = <<>>
    /\ stream = <<>>
    /\ nchunks = 0
    /\ calls = <<>>
    /\ branches = <<>>
    /\ suspended = NoLoop
    /\ full_response = ""
    /\ finish_reason = "length"
    /\ yielded = ""

\* lines 47 and 104
Configure ==
    /\ pc = "config"
    /\ llm_config' = _get_llm_config_by_name(config_cache, config_name)
    /\ pc' = IF llm_config' = None THEN "error" ELSE "configured"
    /\ UNCHANGED <<config_name, config_cache, plain, tool_loop, messages_,
                   messages, token_usage_total, requests, stream, nchunks>>

\* llm_config_manager.py lines 182-185: reload_config() of the client's
\* config_manager, between two calls or before the generator of a call is
\* first resumed; the file has been rewritten or removed
reload_config(file) ==
    /\ pc \in {"config", "configured", "error"}
    /\ config_cache' = _load_config(None, file)
    /\ UNCHANGED <<pc, config_name, llm_config, plain, tool_loop, messages_,
                   messages, token_usage_total, requests, stream, nchunks>>

\* the next call on the same client, with any value of config_name
NewCall ==
    /\ pc \in {"configured", "error"}
    /\ pc' = "config"
    /\ config_name' \in {None} \cup {Some(name) : name \in ConfigNames}
    /\ llm_config' = None
    /\ UNCHANGED <<config_cache, plain, tool_loop, messages_, messages,
                   token_usage_total, requests, stream, nchunks>>

NextConfig ==
    \/ Configure
    \/ \E file \in ConfigFiles : reload_config(file)
    \/ NewCall

SpecConfig == InitConfig /\ [][NextConfig]_vars

(***************************************************************************)
(* What the endpoint and the executor observed, recomputed from their logs *)
(* and not from the loop's accumulators.                                   *)
(***************************************************************************)
\* the chunks of a stream that carry a delta: no usage, one choice
RECURSIVE StreamDeltas(_)
StreamDeltas(chunks) ==
    IF chunks = <<>> THEN <<>>
    ELSE (IF Head(chunks).usage = None /\ Head(chunks).choices # <<>>
          THEN <<Head(chunks).choices[1].delta>> ELSE <<>>)
         \o StreamDeltas(Tail(chunks))

RECURSIVE DeltaFragments(_)
\* the tool-call fragments of a sequence of deltas, in arrival order
DeltaFragments(deltas) ==
    IF deltas = <<>> THEN <<>>
    ELSE Head(deltas).tool_calls \o DeltaFragments(Tail(deltas))

\* the tool-call fragments of this round, in arrival order
RoundFragments == DeltaFragments(StreamDeltas(stream))

\* the indices seen in this round
RoundIndices == {RoundFragments[i].index : i \in 1..Len(RoundFragments)}

\* the n-th smallest element of a set of integers
NthSmallest(S, n) == CHOOSE x \in S : Cardinality({y \in S : y < x}) = n - 1

RECURSIVE ArgumentsFor(_, _)
\* the argument chunks of the fragments of one index, concatenated in
\* arrival order
ArgumentsFor(frags, index) ==
    IF frags = <<>> THEN ""
    ELSE (IF Head(frags).index = index /\ Head(frags).function # None
             /\ Head(frags).function[1].arguments # None
          THEN Head(frags).function[1].arguments[1] ELSE "")
         \o ArgumentsFor(Tail(frags), index)

RECURSIVE DeltasContent(_)
\* the text of a sequence of deltas
DeltasContent(deltas) ==
    IF deltas = <<>> THEN ""
    ELSE (IF Head(deltas).content # None THEN Head(deltas).content[1] ELSE "")
         \o DeltasContent(Tail(deltas))

\* the text the endpoint streamed in this round
RoundContent == DeltasContent(StreamDeltas(stream))

\* s is empty or has white space only
IsBlank(s) == \A i \in 1..Len(s) : SubSeq(s, i, i) \in {" ", "\t", "\n", "\r", "\f"}

\* the positions of the loop while the response of a round is streamed
StreamPositions == {"stream", "content", "name", "arguments"}

\* the positions of the loop in the tool-execution step (lines 234-315)
ToolPositions == {"executing", "tools", "failed", "show", "await", "result", "separator"}

\* the stream of the round has been consumed and its records are built
RoundBuilt == pc \in ToolPositions \cup {"send", "done", "empty"} /\ requests # <<>>

\* the number of records of this round whose tool message is appended: the
\* message of a malformed record is appended before the event of line 264
Replied == IF pc = "failed" THEN pos ELSE pos - 1

\* the messages appended to the history since the request of this round
Appended == SubSeq(messages, Len(Last(requests)) + 1, Len(messages))

\* the tool_call_id a record is answered with: its id, or a placeholder
AnswersRecord(message, tool_call_obj) ==
    /\ message.role = "tool"
    /\ IF tool_call_obj.id # None
       THEN message.tool_call_id = tool_call_obj.id[1]
       ELSE /\ Len(message.tool_call_id) > Len("unknown_id_for_index_")
            /\ SubSeq(message.tool_call_id, 1, Len("unknown_id_for_index_"))
                   = "unknown_id_for_index_"

(***************************************************************************)
(* C1: whatever fragments a round streams, the list rebuilt at stream end  *)
(* has one record per distinct index seen, in strictly ascending order of  *)
(* the index, and the arguments of each record are the argument chunks of  *)
(* that index concatenated in arrival order.                               *)
(***************************************************************************)
C1_ReconstructedByIndex ==
    RoundBuilt =>
        /\ Len(assistant_tool_calls_reconstructed) = Cardinality(RoundIndices)
        /\ \A i \in 1..Len(assistant_tool_calls_reconstructed) :
               assistant_tool_calls_reconstructed[i].function.arguments
                   = ArgumentsFor(RoundFragments, NthSmallest(RoundIndices, i))

\* index 1 arrived first, and the chunks of both indices were interleaved
C1_Witness ==
    /\ pc = "tools"
    /\ Len(RoundFragments) = 4
    /\ RoundFragments[1].index = 1
    /\ RoundFragments[2].index = 0
    /\ RoundFragments[3].index = 1
    /\ assistant_tool_calls_reconstructed[1].function.arguments = "{}"
    /\ assistant_tool_calls_reconstructed[2].function.arguments = "{\n\"a\": 1.5}"

(***************************************************************************)
(* C2: in a round with records, the tool-execution step appends exactly    *)
(* one tool-role message per record, in the order of the records, in every *)
(* branch: after the assistant message there is one tool message for each  *)
(* record handled so far, and one for every record when the round is over. *)
(***************************************************************************)
C2_OneToolMessagePerRecord ==
    (pc \in ToolPositions \cup {"send"} /\ requests # <<>>) =>
        /\ Len(Appended) = Replied + 1
        /\ Appended[1].role = "assistant"
        /\ Replied <= Len(assistant_tool_calls_reconstructed)
        /\ pc = "send" => Replied = Len(assistant_tool_calls_reconstructed)
        /\ \A i \in 1..Replied :
               /\ AnswersRecord(Appended[i + 1], assistant_tool_calls_reconstructed[i])
               /\ (Appended[i + 1].content = IncompleteText)
                      <=> Malformed(assistant_tool_calls_reconstructed[i])

\* a round of two records that took two different branches is over
C2_Witness ==
    /\ pc = "send"
    /\ Len(assistant_tool_calls_reconstructed) = 2
    /\ branches = <<"invalid_json", "incomplete">>

(***************************************************************************)
(* Helpers of the claims about the history that is sent.                   *)
(***************************************************************************)
\* the positions <<j, k>> of the tool-call records that carry id in history h
RecordsWithId(h, id) ==
    {jk \in (1..Len(h)) \X (1..2) :
        /\ h[jk[1]].role = "assistant"
        /\ "tool_calls" \in DOMAIN h[jk[1]]
        /\ jk[2] <= Len(h[jk[1]].tool_calls)
        /\ h[jk[1]].tool_calls[jk[2]].id = Some(id)}

\* the positions of the tool-role messages of h tagged with id
RepliesTo(h, id) ==
    {m \in 1..Len(h) : h[m].role = "tool" /\ h[m].tool_call_id = id}

\* the ids the endpoint gives to tool calls in this model
CallIds == {"c1", "c2", "c3"}

(***************************************************************************)
(* C3 as stated: in every history that is sent, every tool-call id carried *)
(* by an assistant message has exactly one tool-role message with that id. *)
(***************************************************************************)
C3_ExactlyOneReplyPerId ==
    requests # <<>> =>
        \A id \in CallIds :
            RecordsWithId(Last(requests), id) # {} =>
                Cardinality(RepliesTo(Last(requests), id)) = 1

(***************************************************************************)
(* C3 amended: in every history that is sent, every tool-call id carried   *)
(* by an assistant message has at least one tool-role message with that    *)
(* id, one for each record that carries the id: exactly one when a single  *)
(* record carries it.                                                      *)
(***************************************************************************)
C3_OneReplyPerRecordWithId ==
    requests # <<>> =>
        \A id \in CallIds :
            RecordsWithId(Last(requests), id) # {} =>
                /\ Cardinality(RepliesTo(Last(requests), id)) >= 1
                /\ Cardinality(RepliesTo(Last(requests), id))
                       = Cardinality(RecordsWithId(Last(requests), id))

\* a second request carries a round of two records with different ids, one
\* of them answered with an execution failure
C3_Witness ==
    /\ Len(requests) = 2
    /\ Cardinality(RecordsWithId(Last(requests), "c1")) = 1
    /\ Cardinality(RecordsWithId(Last(requests), "c2")) = 1
    /\ calls # <<>>
    /\ calls[1].outcome = <<"raised", Raised("Exception", "boom")>>
    /\ \E m \in RepliesTo(Last(requests), "c1") :
           In("execution failed", Last(requests)[m].content)

(***************************************************************************)
(* C4 as stated: when the executor raises for a tool call, whatever it     *)
(* raises, the conversation goes on: the step that leaves the await binds  *)
(* a result that names the tool and the error detail str(e) and yields it, *)
(* the loop yields the separator after it, and then appends one tool       *)
(* message with that result, tagged with the id of the call, and goes to   *)
(* the next record, or to the next request after the last record.          *)
(***************************************************************************)
C4_ExecutorFailureRecovered ==
    [][LET tool_call_obj == assistant_tool_calls_reconstructed[pos]
       IN  /\ (pc = "await" /\ Last(calls').outcome # None
                /\ Last(calls').outcome[1] = "raised") =>
                  /\ pc' = "result"
                  /\ tool_result' # None
                  /\ UNCHANGED <<messages, pos>>
                  /\ In(tool_call_obj.function.name[1], tool_result'[1])
                  /\ In(Last(calls').outcome[2].detail, tool_result'[1])
           /\ pc = "result" =>
                  /\ pc' = "separator"
                  /\ UNCHANGED <<messages, pos, tool_result>>
           /\ pc = "separator" =>
                  /\ pc' = IF pos < Len(assistant_tool_calls_reconstructed)
                           THEN "tools" ELSE "send"
                  /\ pos' = pos + 1
                  /\ messages' = Append(messages,
                                        [role |-> "tool", content |-> tool_result[1],
                                         tool_call_id |-> tool_call_obj.id[1]])
      ]_vars

(***************************************************************************)
(* C5: a record without id or without name is not executed: the step       *)
(* appends one tool message with the fixed "incomplete" text, tagged with  *)
(* the id of the record when it has one and with a placeholder otherwise,  *)
(* calls no executor and yields the event of the failure; resumed, the     *)
(* loop goes on with the next record of the round, or with the next        *)
(* request after the last record.                                          *)
(***************************************************************************)
C5_MalformedRecordSkipped ==
    [][/\ (/\ pc = "tools"
           /\ \/ assistant_tool_calls_reconstructed[pos].id = None
              \/ assistant_tool_calls_reconstructed[pos].function.name = None) =>
              /\ calls' = calls
              /\ Len(messages') = Len(messages) + 1
              /\ SubSeq(messages', 1, Len(messages)) = messages
              /\ Last(messages').content = IncompleteText
              /\ AnswersRecord(Last(messages'), assistant_tool_calls_reconstructed[pos])
              /\ pos' = pos
              /\ pc' = "failed"
       /\ pc = "failed" =>
              /\ UNCHANGED <<calls, messages>>
              /\ pos' = pos + 1
              /\ pc' = IF pos < Len(assistant_tool_calls_reconstructed)
                       THEN "tools" ELSE "send"
      ]_vars

\* the first record of a round had no id and got a placeholder; the second
\* record is next
C5_Witness ==
    /\ pc = "tools"
    /\ pos = 2
    /\ assistant_tool_calls_reconstructed[1].id = None
    /\ Last(messages).tool_call_id = "unknown_id_for_index_0"
    /\ Last(messages).content = IncompleteText

(***************************************************************************)
(* Helpers of the claims about the branch a record takes.                  *)
(***************************************************************************)
\* the tool message that answers record i of this round
ReplyTo(i) == Appended[i + 1]

\* the invocations of the executor for record i of this round
CallsFor(i) ==
    {c \in 1..Len(calls) : calls[c].round = Len(requests) /\ calls[c].pos = i}

\* the records of this round that have been answered
Answered ==
    IF pc \in ToolPositions \cup {"send"} /\ requests # <<>> THEN 1..Replied ELSE {}

WellFormed(tool_call_obj) ==
    tool_call_obj.id # None /\ tool_call_obj.function.name # None

(***************************************************************************)
(* C6 as stated: a record with id and name whose arguments are not valid   *)
(* JSON is not executed and is answered, under its id, by a tool message   *)
(* whose content contains the raw arguments text and the parse error.      *)
(***************************************************************************)
C6_InvalidJsonReported ==
    \A i \in Answered :
        LET tool_call_obj == assistant_tool_calls_reconstructed[i]
            arguments_str == tool_call_obj.function.arguments
            parsed == json_loads(arguments_str)
        IN  (WellFormed(tool_call_obj) /\ ~parsed.ok) =>
                /\ CallsFor(i) = {}
                /\ ReplyTo(i).role = "tool"
                /\ ReplyTo(i).tool_call_id = tool_call_obj.id[1]
                /\ In(JSONDecodeErrorStr(arguments_str, parsed), ReplyTo(i).content)
                /\ In(arguments_str, ReplyTo(i).content)

(***************************************************************************)
(* C7 as stated: a record with id, name and arguments that parse as JSON   *)
(* has the executor invoked exactly once, with its name and the parsed     *)
(* arguments; when the executor has returned, the tool message of the      *)
(* record holds str() of the result under the id of the record.            *)
(***************************************************************************)
C7_ExecutorInvokedOnce ==
    \A i \in Answered :
        LET tool_call_obj == assistant_tool_calls_reconstructed[i]
            parsed == json_loads(tool_call_obj.function.arguments)
        IN  (WellFormed(tool_call_obj) /\ parsed.ok) =>
                /\ Cardinality(CallsFor(i)) = 1
                /\ \A c \in CallsFor(i) :
                       /\ calls[c].name = tool_call_obj.function.name[1]
                       /\ calls[c].arguments = parsed.val
                       /\ calls[c].outcome[1] = "returned" =>
                              /\ ReplyTo(i).content = PyStr(calls[c].outcome[2])
                              /\ ReplyTo(i).tool_call_id = tool_call_obj.id[1]

(***************************************************************************)
(* Helpers of the claims about the end of a round.                         *)
(***************************************************************************)
\* this step is the end of the stream of a round (lines 182-234)
RoundEnds == pc = "stream" /\ pc' \in {"executing", "done", "empty"}

(***************************************************************************)
(* C8: a round that ends with non-blank content and no tool-call record is *)
(* the last one: the step appends one assistant message that holds the     *)
(* content of the round and nothing else, calls no executor, sends no      *)
(* request and ends in DONE, and no step follows DONE.                     *)
(***************************************************************************)
C8_ContentOnlyRoundIsDone ==
    [][/\ (RoundEnds /\ ~IsBlank(RoundContent) /\ RoundFragments = <<>>) =>
              /\ pc' = "done"
              /\ messages' = Append(messages, [role |-> "assistant",
                                               content |-> RoundContent])
              /\ calls' = calls
              /\ requests' = requests
       /\ pc # "done"
      ]_vars

\* the first response to a history that already ends with an answer is text
\* only: DONE after one request
C8_Witness ==
    /\ pc = "done"
    /\ Len(requests) = 1
    /\ Len(messages_) = 3
    /\ RoundContent = "HelHel"
    /\ Last(messages) = [role |-> "assistant", content |-> "HelHel"]

(***************************************************************************)
(* C9: a round that ends with blank content and no tool-call record is the *)
(* last one, whatever finish reason was reported: the step appends no      *)
(* message, calls no executor, sends no request and ends the loop without  *)
(* an exception, and no step follows that end.                             *)
(***************************************************************************)
C9_EmptyRoundAborts ==
    [][/\ (RoundEnds /\ IsBlank(RoundContent) /\ RoundFragments = <<>>) =>
              /\ pc' = "empty"
              /\ messages' = messages
              /\ calls' = calls
              /\ requests' = requests
       /\ pc # "empty"
      ]_vars

\* white space and a finish reason tool_calls, but no fragment
C9_Witness ==
    /\ pc = "empty"
    /\ RoundContent = " \f"
    /\ \E i \in 1..Len(stream) :
           /\ stream[i].choices # <<>>
           /\ stream[i].choices[1].finish_reason = Some("tool_calls")
    /\ messages = Last(requests)

(***************************************************************************)
(* C10: a round that ends with at least one tool-call record goes on to    *)
(* the tools and from there to the next request, and the history of that   *)
(* request is the history sent in this round, then the assistant message   *)
(* of this round, then one tool message per record in record order, and    *)
(* nothing else.                                                           *)
(***************************************************************************)
C10_NextRequestExtendsHistory ==
    [][/\ (RoundEnds /\ RoundFragments # <<>>) => pc' = "executing"
       /\ pc \in ToolPositions => pc' \in ToolPositions \cup {"send"}
       /\ pc = "send" => requests' = Append(requests, messages)
       /\ (pc = "send" /\ requests # <<>>) =>
              LET n == Len(assistant_tool_calls_reconstructed)
              IN  /\ n >= 1
                  /\ Len(messages) = Len(Last(requests)) + 1 + n
                  /\ SubSeq(messages, 1, Len(Last(requests))) = Last(requests)
                  /\ Appended[1] =
                         (IF IsBlank(RoundContent)
                          THEN [role |-> "assistant",
                                tool_calls |-> assistant_tool_calls_reconstructed]
                          ELSE [role |-> "assistant", content |-> RoundContent,
                                tool_calls |-> assistant_tool_calls_reconstructed])
                  /\ \A i \in 1..n :
                         AnswersRecord(Appended[i + 1],
                                       assistant_tool_calls_reconstructed[i])
      ]_vars

\* the second request: the first history, an assistant message with content
\* and two records, and two tool messages
C10_Witness ==
    /\ Len(requests) = 2
    /\ pc = "stream"
    /\ Len(requests[2]) = Len(requests[1]) + 3
    /\ "content" \in DOMAIN requests[2][Len(requests[1]) + 1]
    /\ Len(requests[2][Len(requests[1]) + 1].tool_calls) = 2
    /\ requests[2][Len(requests[2])].role = "tool"

(***************************************************************************)
(* C11: the step that ends the stream of a round appends one assistant     *)
(* message when the round has non-blank content or records, and nothing    *)
(* otherwise; the message has a content field exactly when the content of  *)
(* the round is non-blank, holding the content of this round only, and a   *)
(* tool_calls field exactly when the round has records, holding them; no   *)
(* other step appends an assistant message.                                *)
(***************************************************************************)
C11_AssistantMessageShape ==
    [][/\ RoundEnds =>
              IF ~IsBlank(RoundContent) \/ RoundFragments # <<>>
              THEN /\ Len(messages') = Len(messages) + 1
                   /\ SubSeq(messages', 1, Len(messages)) = messages
                   /\ Last(messages').role = "assistant"
                   /\ "content" \in DOMAIN Last(messages') <=> ~IsBlank(RoundContent)
                   /\ "content" \in DOMAIN Last(messages') =>
                          Last(messages').content = RoundContent
                   /\ "tool_calls" \in DOMAIN Last(messages') <=> RoundFragments # <<>>
                   /\ "tool_calls" \in DOMAIN Last(messages') =>
                          /\ Last(messages').tool_calls # <<>>
                          /\ Last(messages').tool_calls
                                 = assistant_tool_calls_reconstructed'
              ELSE messages' = messages
       /\ (Len(messages') > Len(messages) /\ Last(messages').role = "assistant")
              => RoundEnds
      ]_vars

\* the second round streamed the same text as the first: its message holds
\* the text once, and the message of the first round holds text and records
C11_Witness ==
    /\ pc = "done"
    /\ Len(requests) = 2
    /\ Last(messages) = [role |-> "assistant", content |-> "Hel"]
    /\ LET m == requests[2][Len(requests[1]) + 1]
       IN  /\ m.role = "assistant"
           /\ DOMAIN m = {"role", "content", "tool_calls"}
           /\ m.content = "Hel"

(***************************************************************************)
(* Helpers of the claims about the text the caller builds.                 *)
(***************************************************************************)
\* the deltas of a stream that have the attribute reasoning_content
ReasoningDeltas(chunks) == SelectSeq(StreamDeltas(chunks), HasReasoning)

\* the content of the endpoint's stream that the loop is to pass on in this
\* step: the content of the chunk streamed in it, or, after the event of the
\* reasoning of a chunk, the content of that chunk
StreamedNow ==
    IF Len(stream') = Len(stream) + 1 /\ ReasoningDeltas(<<Last(stream')>>) = <<>>
    THEN DeltasContent(StreamDeltas(<<Last(stream')>>))
    ELSE IF pc = "reasoning_content"
    THEN DeltasContent(StreamDeltas(<<Last(stream)>>))
    ELSE ""

\* this step resumes the loop after the event of the result of a record
\* (line 307): of a record that has id and name
AfterResultNow ==
    /\ pc = "result"
    /\ WellFormed(assistant_tool_calls_reconstructed[pos])

(***************************************************************************)
(* C12 as stated: the text get_context builds is the concatenation, in     *)
(* round order, of the content the model streamed: every step adds to it   *)
(* the content streamed in that step and nothing else.                     *)
(***************************************************************************)
C12_OutputIsStreamedContent ==
    [][llm_output' = llm_output \o StreamedNow]_vars

(***************************************************************************)
(* C12 amended: the text get_context builds is the concatenation, in the   *)
(* order of the events, of the content the model streamed and of one       *)
(* separator of two newlines for every tool-call record with id and name,  *)
(* added after the event of the result of the record and before its tool   *)
(* message is appended; a record without id or name adds nothing.          *)
(***************************************************************************)
C12_OutputIsContentAndSeparators ==
    [][/\ llm_output' = llm_output \o StreamedNow
                             \o (IF AfterResultNow THEN "\n\n" ELSE "")
       /\ Len(messages') > Len(messages) /\ Last(messages').role = "tool"
              => pc \in {"tools", "separator"}
       /\ pc = "separator" => event = Event("content", Some("\n\n"))
      ]_vars

\* two rounds of the same text with one tool call between them
C12_Witness ==
    /\ pc = "done"
    /\ Len(requests) = 2
    /\ RoundContent = "Hel"
    /\ llm_output = "Hel\n\nHel"

(***************************************************************************)
(* Helpers of the claims about the usage totals.                           *)
(***************************************************************************)
\* the usage fragment consumed in this step, or a fragment of zeros
UsageNow ==
    IF Len(stream') = Len(stream) + 1 /\ Last(stream').usage # None
    THEN Last(stream').usage[1] ELSE Usage(0, 0, 0)

(***************************************************************************)
(* C13: over the life of one client instance, each of the three usage      *)
(* totals is the sum of its field over the usage fragments consumed so     *)
(* far: the totals start at zero, every step adds to each total the field  *)
(* of the usage fragment consumed in that step, and nothing else changes   *)
(* them, neither a new round nor a new conversation; so they never         *)
(* decrease.                                                               *)
(***************************************************************************)
C13_UsageTotalsAreSums ==
    /\ token_usage_total = Usage(0, 0, 0)
    /\ [][/\ token_usage_total'.prompt_tokens
                 = token_usage_total.prompt_tokens + UsageNow.prompt_tokens
          /\ token_usage_total'.completion_tokens
                 = token_usage_total.completion_tokens + UsageNow.completion_tokens
          /\ token_usage_total'.total_tokens
                 = token_usage_total.total_tokens + UsageNow.total_tokens
          /\ token_usage_total'.prompt_tokens >= token_usage_total.prompt_tokens
          /\ token_usage_total'.completion_tokens
                 >= token_usage_total.completion_tokens
          /\ token_usage_total'.total_tokens >= token_usage_total.total_tokens
         ]_vars

\* the first round of a later conversation has consumed one usage fragment,
\* and the totals also hold the two fragments, one of each kind, that the
\* conversation before consumed
C13_Witness ==
    /\ Len(requests) = 1
    /\ stream = <<[usage |-> Some(Usage(1, 2, 3)), choices |-> <<>>]>>
    /\ nchunks = 3
    /\ token_usage_total = Usage(4, 4, 8)

(***************************************************************************)
(* C14: a failure of the request or of the consumption of the stream ends  *)
(* the loop with the error: a chunk that has neither usage nor a choice    *)
(* fails the round, a step into the error comes from the request or the    *)
(* stream only, calls no tool and leaves the history as it was sent in     *)
(* that round, and no step follows the error (no retry, no request).       *)
(***************************************************************************)
C14_EndpointFailureIsFatal ==
    [][/\ (/\ Len(stream') = Len(stream) + 1
           /\ Last(stream').usage = None
           /\ Last(stream').choices = <<>>) => pc' = "error"
       /\ pc' = "error" =>
              /\ pc \in {"send", "stream"}
              /\ messages' = messages
              /\ messages' = Last(requests')
              /\ calls' = calls
              /\ \A c \in 1..Len(calls') : calls'[c].round < Len(requests')
       /\ pc # "error"
      ]_vars

\* the second round streamed text and then a chunk without choices: the
\* history is the one that was sent, the text of the round is lost
C14_Witness ==
    /\ pc = "error"
    /\ Len(requests) = 2
    /\ Len(stream) = 2
    /\ current_round_content = "Hel"
    /\ Last(stream).choices = <<>>
    /\ messages = requests[2]

(***************************************************************************)
(* C15 as stated: when the conversation is cancelled at a tool invocation, *)
(* the loop returns at once and the history holds no assistant or tool     *)
(* message of the round in flight: it is the history that was sent in that *)
(* round.                                                                  *)
(***************************************************************************)
C15_CancelledRoundLeavesNoMessage ==
    [][(calls' # <<>> /\ Last(calls').outcome = <<"cancelled">>
        /\ calls' # calls) =>
           /\ pc' \in {"done", "empty"}
           /\ messages' = Last(requests')
      ]_vars

(***************************************************************************)
(* Helpers of the claims about the order of the calls.                     *)
(***************************************************************************)
\* the invocations of the executor that have not ended
Executing == {c \in 1..Len(calls) : calls[c].outcome = None}

(***************************************************************************)
(* C16: one thing at a time.  A request is sent only when the stream of    *)
(* the request before it has ended and no tool call is executing; at most  *)
(* one tool call is executing, and none while a response is streamed; a    *)
(* tool call starts only when every call before it has ended, for a record *)
(* after the records of the earlier calls of the round, and when the tool  *)
(* messages of all the records before it have been appended.               *)
(***************************************************************************)
C16_OneAtATime ==
    [][/\ Cardinality(Executing) <= 1
       /\ pc = "stream" => Executing = {}
       /\ requests' # requests =>
              /\ pc = "send"
              /\ Executing = {}
              /\ requests' = Append(requests, messages)
       /\ Len(calls') > Len(calls) =>
              /\ Executing = {}
              /\ Len(calls') = Len(calls) + 1
              /\ Last(calls').round = Len(requests)
              /\ \A c \in 1..Len(calls) :
                     calls[c].round = Len(requests) => calls[c].pos < Last(calls').pos
              /\ Len(messages) = Len(Last(requests)) + Last(calls').pos
              /\ \A i \in 1..(Last(calls').pos - 1) :
                     AnswersRecord(ReplyTo(i), assistant_tool_calls_reconstructed[i])
      ]_vars

\* the second call of a round is executing; the first one has returned and
\* its tool message is the last of the history
C16_Witness ==
    /\ pc = "await"
    /\ Len(calls) = 2
    /\ calls[1].round = 1 /\ calls[1].pos = 1 /\ calls[1].outcome[1] = "returned"
    /\ calls[2].round = 1 /\ calls[2].pos = 2 /\ calls[2].outcome = None
    /\ Last(messages).role = "tool"
    /\ Last(messages).tool_call_id = "c1"

(***************************************************************************)
(* C17: the number of rounds does not end the loop.  The loop returns only *)
(* in the step that ends a round without records, and that step always     *)
(* returns; a round with records goes to its tools and from there to the   *)
(* next request, whatever the number of rounds before it; and when the     *)
(* endpoint comes to a round without tool calls, the loop comes to DONE or *)
(* ABORTED_EMPTY, or to the error of the endpoint.                         *)
(***************************************************************************)
C17_EndsOnlyWithoutRecords ==
    /\ [][/\ pc' \in {"done", "empty"} => (RoundEnds /\ RoundFragments = <<>>)
          /\ (RoundEnds /\ RoundFragments = <<>>) => pc' \in {"done", "empty"}
          /\ (RoundEnds /\ RoundFragments # <<>>) => pc' = "executing"
          /\ pc \in ToolPositions => pc' \in ToolPositions \cup {"send"}
          /\ pc = "send" => pc' \in {"stream", "error"}
         ]_vars
    /\ <>(pc \in {"done", "empty", "error"})

\* every round before the last one had records, and the last round the
\* model allows ended the loop with its text
C17_Witness ==
    /\ pc = "done"
    /\ Len(requests) = MaxRounds
    /\ \A k \in 2..MaxRounds : Last(requests[k]).role = "tool"
    /\ Last(messages).role = "assistant"

(***************************************************************************)
(* Helpers of the claims about the history.                                *)
(***************************************************************************)
\* sequence a is the beginning of sequence b
IsPrefix(a, b) == Len(a) <= Len(b) /\ SubSeq(b, 1, Len(a)) = a

(***************************************************************************)
(* C18: the history only grows at its end.  No step removes, moves or      *)
(* changes a message that is in the history, a step appends at most one    *)
(* message, and the list a request is sent with begins with the list the   *)
(* request before it was sent with, which began with the caller's list.    *)
(***************************************************************************)
C18_HistoryAppendOnly ==
    [][/\ IsPrefix(messages, messages')
       /\ Len(messages') <= Len(messages) + 1
       /\ IsPrefix(messages_, messages')
       /\ requests' # requests =>
              /\ requests' = Append(requests, messages)
              /\ requests # <<>> => IsPrefix(Last(requests), Last(requests'))
      ]_vars

\* three requests, each with a longer history than the one before
C18_Witness ==
    /\ Len(requests) = 3
    /\ Len(requests[1]) < Len(requests[2])
    /\ Len(requests[2]) < Len(requests[3])
    /\ IsPrefix(requests[1], requests[2])
    /\ IsPrefix(requests[2], requests[3])
    /\ requests[3] = messages

(***************************************************************************)
(* Helpers of the claims about the aggregation of the fragments.           *)
(***************************************************************************)
\* the positions, in arrival order, of the fragments of this round with index
FragmentsOf(index) ==
    {j \in 1..Len(RoundFragments) : RoundFragments[j].index = index}

\* fragment j carries a non-empty id
HasId(j) == RoundFragments[j].id \notin {None, Some("")}

\* fragment j carries a non-empty name
HasName(j) ==
    /\ RoundFragments[j].function # None
    /\ RoundFragments[j].function[1].name \notin {None, Some("")}

\* record obj holds nothing but what the fragments of this round with index
\* gave it
FromThisRound(obj, index) ==
    /\ FragmentsOf(index) # {}
    /\ obj.function.arguments = ArgumentsFor(RoundFragments, index)
    /\ obj.id # None =>
           \E j \in FragmentsOf(index) : RoundFragments[j].id = obj.id
    /\ obj.function.name # None =>
           \E j \in FragmentsOf(index) :
               HasName(j) /\ RoundFragments[j].function[1].name = obj.function.name

(***************************************************************************)
(* C19: the aggregation map belongs to one round.  While a response is     *)
(* streamed the map has one entry for each index seen in this round and    *)
(* none for other indices, and an entry, like the record built from it at  *)
(* the end of the round, holds an id, a name and arguments that fragments  *)
(* of this round with that index carried: nothing of a record of an        *)
(* earlier round with the same index.                                      *)
(***************************************************************************)
C19_AggregationScopedToRound ==
    /\ pc = "stream" =>
           /\ {tool_call_deltas_by_index[e][1] :
                   e \in 1..Len(tool_call_deltas_by_index)} = RoundIndices
           /\ \A e \in 1..Len(tool_call_deltas_by_index) :
                  FromThisRound(tool_call_deltas_by_index[e][2],
                                tool_call_deltas_by_index[e][1])
    /\ RoundBuilt =>
           /\ Len(assistant_tool_calls_reconstructed) = Cardinality(RoundIndices)
           /\ \A i \in 1..Len(assistant_tool_calls_reconstructed) :
                  FromThisRound(assistant_tool_calls_reconstructed[i],
                                NthSmallest(RoundIndices, i))

\* index 0 of the first round had the id c1 and the arguments "{"; index 0 of
\* the second round got no id and the arguments "{}"
C19_Witness ==
    /\ Len(requests) = 2
    /\ pc = "tools"
    /\ Len(Last(requests)) = Len(messages_) + 2
    /\ LET before == Last(Last(requests)[Len(Last(requests)) - 1].tool_calls)
       IN  /\ before.id = Some("c1")
           /\ before.function.arguments = "{"
    /\ 0 \in RoundIndices
    /\ assistant_tool_calls_reconstructed[1].id = None
    /\ assistant_tool_calls_reconstructed[1].function.arguments = "{}"

(***************************************************************************)
(* Helpers of the claim about the id and the name of a record.             *)
(***************************************************************************)
\* the last of a non-empty set of positions
MaxOf(S) == CHOOSE j \in S : \A k \in S : k <= j

\* the id of the last fragment of this round with index that carried a
\* non-empty id, None if there is none
LastId(index) ==
    LET S == {j \in FragmentsOf(index) : HasId(j)}
    IN  IF S = {} THEN None ELSE RoundFragments[MaxOf(S)].id

\* the same for the name
LastName(index) ==
    LET S == {j \in FragmentsOf(index) : HasName(j)}
    IN  IF S = {} THEN None ELSE RoundFragments[MaxOf(S)].function[1].name

(***************************************************************************)
(* C20: the id of a record is the id of the last fragment of its index     *)
(* that carried a non-empty id, and is absent if no fragment did; its name *)
(* is the name of the last fragment that carried a non-empty name; and     *)
(* while the response is streamed no fragment clears an id or a name that  *)
(* is set.                                                                 *)
(***************************************************************************)
C20_LastNonEmptyIdAndNameWin ==
    /\ [](RoundBuilt =>
              \A i \in 1..Len(assistant_tool_calls_reconstructed) :
                  LET obj == assistant_tool_calls_reconstructed[i]
                      index == NthSmallest(RoundIndices, i)
                  IN  /\ obj.id = LastId(index)
                      /\ obj.function.name = LastName(index))
    /\ [][(pc \in StreamPositions /\ pc' \in StreamPositions) =>
              \A e \in 1..Len(tool_call_deltas_by_index) :
                  LET old == tool_call_deltas_by_index[e]
                      new == tool_call_deltas_by_index'[e]
                  IN  /\ new[1] = old[1]
                      /\ old[2].id # None => new[2].id # None
                      /\ old[2].function.name # None => new[2].function.name # None
         ]_vars

\* index 0 got the id c1 and the name get_tree, then c2 and save, then an
\* empty id and an empty name: the record holds c2 and save
C20_Witness ==
    /\ pc = "tools"
    /\ Len(RoundFragments) = 4
    /\ RoundFragments[1].id = Some("c1")
    /\ RoundFragments[2].id = Some("c2") /\ RoundFragments[2].index = 0
    /\ RoundFragments[4].id = Some("") /\ RoundFragments[4].index = 0
    /\ assistant_tool_calls_reconstructed[1].id = Some("c2")
    /\ assistant_tool_calls_reconstructed[1].function.name = Some("save")
    /\ assistant_tool_calls_reconstructed[1].function.arguments = "{}"

(***************************************************************************)
(* C21: a chunk with usage adds its usage to the totals and changes        *)
(* neither the content of the round, nor the aggregation of the tool       *)
(* calls, nor the history, nor what the caller has received; a chunk       *)
(* without usage leaves the totals as they are.                            *)
(***************************************************************************)
C21_FragmentRoutingExclusive ==
    [][/\ (pc = "stream" /\ Len(stream') = Len(stream) + 1) =>
           LET chunk == Last(stream')
           IN  IF chunk.usage # None
               THEN /\ token_usage_total' =
                           update_total_token_usage(token_usage_total, chunk.usage[1])
                    /\ current_round_content' = current_round_content
                    /\ tool_call_deltas_by_index' = tool_call_deltas_by_index
                    /\ UNCHANGED <<pc, messages, content_all, llm_output>>
               ELSE token_usage_total' = token_usage_total
       /\ pc \in {"content", "name", "arguments"} =>
              token_usage_total' = token_usage_total
      ]_vars

\* after text and a tool-call fragment, the chunk that carries usage, text
\* and a fragment of index 0: the totals are its usage, the content and the
\* record are those of before
C21_Witness ==
    /\ pc = "stream"
    /\ Len(stream) = 3
    /\ stream[3].usage = Some(Usage(2, 0, 2))
    /\ stream[3].choices # <<>>
    /\ stream[3].choices[1].delta.content = Some("lo")
    /\ stream[3].choices[1].delta.tool_calls # <<>>
    /\ current_round_content = "Hel"
    /\ Len(tool_call_deltas_by_index) = 1
    /\ tool_call_deltas_by_index[1][2].id = Some("c1")
    /\ tool_call_deltas_by_index[1][2].function.arguments = "{"
    /\ token_usage_total = Usage(2, 0, 2)

(***************************************************************************)
(* C22: two interleaved conversations share no state.  A step of the       *)
(* running conversation is a step of that conversation alone: it leaves    *)
(* the suspended one as it is, history and totals of its client included,  *)
(* and adds to the totals of its own client the usage fragment it          *)
(* consumed and nothing else.  A step of the event loop resumes the        *)
(* suspended conversation with the history, the totals and the locals it   *)
(* was suspended with, and suspends the running one with its own.  So the  *)
(* steps of each conversation, taken alone, are a run of that              *)
(* conversation without the other.                                         *)
(***************************************************************************)
C22_LoopsShareNoState ==
    [][IF suspended' # suspended
       THEN /\ Running' = suspended
            /\ suspended' = Running
       ELSE /\ Next
            /\ suspended'.messages = suspended.messages
            /\ suspended'.token_usage_total = suspended.token_usage_total
            /\ token_usage_total' =
                   update_total_token_usage(token_usage_total, UsageNow)
      ]_vars

\* the first conversation was suspended at the await of read_file, after
\* the reply to a record without id; the second one was sent, consumed a
\* usage fragment and ended; the first one has gone on to the end of its
\* round: its history holds its three messages, its totals are zero, and the
\* second client's totals are the fragment
C22_Witness ==
    /\ pc = "send"
    /\ Len(requests) = 1
    /\ Len(calls) = 1
    /\ calls[1].outcome # None
    /\ calls[1].outcome[1] = "returned"
    /\ Len(messages) = Len(messages_) + 3
    /\ Last(messages).tool_call_id = "c2"
    /\ token_usage_total = Usage(0, 0, 0)
    /\ suspended.pc = "empty"
    /\ Len(suspended.requests) = 1
    /\ suspended.messages = suspended.messages_
    /\ suspended.token_usage_total = Usage(1, 2, 3)

(***************************************************************************)
(* C23: the list the caller passed is what it was before the call, in      *)
(* length and in elements, at every point of a call of either generator:   *)
(* no step changes it, neither one that appends to the history, nor one    *)
(* that ends the call, with an error or without.                           *)
(***************************************************************************)
C23_CallersListUnchanged ==
    /\ messages_ \in Seeds
    /\ [][messages_' = messages_]_vars

\* the call with tools has ended with an error in its second round: its
\* history has the two messages of the first round, the caller's list has
\* none of them
C23_Witness ==
    /\ pc = "error"
    /\ Len(requests) = 2
    /\ Len(messages) = Len(messages_) + 2
    /\ messages[Len(messages)].role = "tool"
    /\ messages_ \in Seeds
    /\ full_response = ""

(***************************************************************************)
(* C24 as stated: within one round, the placeholder ids given to the       *)
(* records that have no id are pairwise distinct.                          *)
(***************************************************************************)
C24_PlaceholdersDistinct ==
    \A i, j \in Answered :
        (/\ i # j
         /\ assistant_tool_calls_reconstructed[i].id = None
         /\ assistant_tool_calls_reconstructed[j].id = None) =>
            ReplyTo(i).tool_call_id # ReplyTo(j).tool_call_id

(***************************************************************************)
(* C25 as stated: whatever tool_argument_to_show is, a record is answered  *)
(* with the "execution failed" diagnostic only if the executor was invoked *)
(* for that record and raised.                                             *)
(***************************************************************************)
C25_ExecutionFailedOnlyIfInvoked ==
    \A i \in Answered :
        In(" execution failed. Details: ", ReplyTo(i).content) =>
            \E c \in CallsFor(i) :
                /\ calls[c].outcome # None
                /\ calls[c].outcome[1] = "raised"

(***************************************************************************)
(* Parts of C26 that are checked one by one.                               *)
(***************************************************************************)
\* a round of send_messages_stream ends in this step
PlainRoundEnds == pc = "response" /\ pc' \in {"request", "stopped"}

\* the generator goes on after a round unless the last finish reason seen
\* is "stop" and the accumulated response is not empty, and stops then; it
\* stops at the end of a round only
C26_StopsOnStopAndText ==
    [][/\ PlainRoundEnds =>
              (pc' = "stopped" <=> (finish_reason = "stop" /\ full_response # ""))
       /\ (pc' = "stopped" /\ pc # "stopped") => PlainRoundEnds
       /\ pc = "stopped" => pc' = "stopped"
      ]_vars

\* a request after the first is the caller's messages and one prefix message
\* with the response accumulated so far
C26_OnePrefixMessage ==
    [][(Len(requests') = Len(requests) + 1 /\ requests # <<>>) =>
           Last(requests') = Append(messages_, PrefixMessage(full_response))
      ]_vars

\* what has been yielded is the accumulated response, once the generator
\* has been resumed after the yield (line 70)
C26_YieldedIsResponse == pc # "text" => yielded = full_response

(***************************************************************************)
(* C26 as stated: send_messages_stream sends requests until a round has    *)
(* ended with the last finish reason seen equal to "stop" and a non-empty  *)
(* accumulated response, and then stops; every request after the first is  *)
(* the caller's messages followed by exactly one assistant prefix message  *)
(* that holds the response accumulated so far; and the concatenation of    *)
(* the yielded chunks is the accumulated response.                         *)
(***************************************************************************)
C26_PlainStreamContinues ==
    /\ C26_StopsOnStopAndText
    /\ C26_OnePrefixMessage
    /\ []C26_YieldedIsResponse

(***************************************************************************)
(* C27 as stated: a call with the name of an existing configuration uses   *)
(* the endpoint, the key and the model of that configuration, so calls     *)
(* with two different existing names use the two named configurations.     *)
(***************************************************************************)
C27_ConfigNameSelects ==
    [][(/\ pc = "config"
        /\ pc' # "config"
        /\ config_name # None
        /\ get_model_config(config_cache, config_name) # None) =>
           llm_config' = get_model_config(config_cache, config_name)
      ]_vars

====
